---------------------------- MODULE Spec2Model ----------------------------
(***************************************************************************)
(* A model of the query engine of package parser (src/parser.go, second    *)
(* revision starting at line 682, and the enhanced lexer).  Go strings are *)
(* TLA+ strings, a byte is a string of length one, and the byte 0 that the *)
(* lexer uses for the end of input is the empty string.  Positions are     *)
(* 0-based as in the source.                                               *)
(***************************************************************************)
EXTENDS Integers, Sequences, FiniteSets, TLC

VARIABLES query, data, pc, ast, idx, results, err, evaluated

vars == <<query, data, pc, ast, idx, results, err, evaluated>>

-----------------------------------------------------------------------------
(* Bytes *)

NUL == ""

\* The bytes of the inputs in code order: tab, newline, carriage return,
\* then the printable ASCII characters 32..95 and 97..126 (code 96, the
\* backquote, cannot be written in a string here and is outside every input
\* alphabet).
Bytes ==
    "\t\n\r !\"#$%&'()*+,-./0123456789:;<=>?@ABCDEFGHIJKLMNOPQRSTUVWXYZ[\\]^_abcdefghijklmnopqrstuvwxyz{|}~"

Digits == "0123456789"

\* the byte c occurs in s (never the byte 0)
InStr(c, s) == \E i \in 1..Len(s) : SubSeq(s, i, i) = c

\* the position of the byte c in s, which holds it once
Pos(c, s) == CHOOSE i \in 1..Len(s) : SubSeq(s, i, i) = c

\* The code of a byte
Ord(c) ==
    LET code(i) == IF i = 1 THEN 9 ELSE IF i = 2 THEN 10 ELSE IF i = 3 THEN 13 ELSE IF i <= 67 THEN 28 + i ELSE 29 + i
    IN  IF c = NUL THEN 0 ELSE code(Pos(c, Bytes))

\* s[i], 0-based; NUL outside the string
At(s, i) == IF i >= 0 /\ i < Len(s) THEN SubSeq(s, i + 1, i + 1) ELSE NUL

\* s[i:j], 0-based, j exclusive
Slice(s, i, j) == SubSeq(s, i + 1, j)

\* 'a' <= ch <= 'z' || 'A' <= ch <= 'Z' || ch == '_'
isLetter(ch) == InStr(ch, "abcdefghijklmnopqrstuvwxyzABCDEFGHIJKLMNOPQRSTUVWXYZ_")

\* '0' <= ch <= '9'
isDigit(ch) == InStr(ch, Digits)

isLetterOrDigit(ch) == InStr(ch, "abcdefghijklmnopqrstuvwxyzABCDEFGHIJKLMNOPQRSTUVWXYZ_0123456789")

UpperOf(c) ==
    LET at(i) == SubSeq("ABCDEFGHIJKLMNOPQRSTUVWXYZ", i, i)
    IN  IF InStr(c, "abcdefghijklmnopqrstuvwxyz") THEN at(Pos(c, "abcdefghijklmnopqrstuvwxyz")) ELSE c

LowerOf(c) ==
    LET at(i) == SubSeq("abcdefghijklmnopqrstuvwxyz", i, i)
    IN  IF InStr(c, "ABCDEFGHIJKLMNOPQRSTUVWXYZ") THEN at(Pos(c, "ABCDEFGHIJKLMNOPQRSTUVWXYZ")) ELSE c

RECURSIVE ToUpper(_)
ToUpper(s) == IF s = "" THEN "" ELSE UpperOf(SubSeq(s, 1, 1)) \o ToUpper(Tail(s))

RECURSIVE ToLower(_)
ToLower(s) == IF s = "" THEN "" ELSE LowerOf(SubSeq(s, 1, 1)) \o ToLower(Tail(s))

\* strings.EqualFold on ASCII
EqualFold(s, t) == ToUpper(s) = ToUpper(t)

\* strings.HasPrefix, strings.Contains
HasPrefix(s, p) == Len(s) >= Len(p) /\ SubSeq(s, 1, Len(p)) = p

Contains(s, p) == \E i \in 0..(Len(s) - Len(p)) : SubSeq(s, i + 1, i + Len(p)) = p

\* strings.ContainsAny(s, letters)
containsLetters(s) ==
    \E i \in 1..Len(s) : InStr(SubSeq(s, i, i), "abcdefghijklmnopqrstuvwxyzABCDEFGHIJKLMNOPQRSTUVWXYZ")

\* strings.ReplaceAll(s, ",", "")
RECURSIVE StripCommas(_)
StripCommas(s) ==
    IF s = "" THEN ""
    ELSE IF SubSeq(s, 1, 1) = "," THEN StripCommas(Tail(s))
    ELSE SubSeq(s, 1, 1) \o StripCommas(Tail(s))

\* strings.Split(s, ".")
RECURSIVE SplitDots(_, _)
SplitDots(s, acc) ==
    IF s = "" THEN <<acc>>
    ELSE IF SubSeq(s, 1, 1) = "." THEN <<acc>> \o SplitDots(Tail(s), "")
    ELSE SplitDots(Tail(s), acc \o SubSeq(s, 1, 1))

\* byte-wise string order of Go's < on strings
RECURSIVE StrLess(_, _)
StrLess(s, t) ==
    IF t = "" THEN FALSE
    ELSE IF s = "" THEN TRUE
    ELSE IF SubSeq(s, 1, 1) = SubSeq(t, 1, 1) THEN StrLess(Tail(s), Tail(t))
    ELSE Ord(SubSeq(s, 1, 1)) < Ord(SubSeq(t, 1, 1))

-----------------------------------------------------------------------------
(* strconv and fmt.  Numbers that come from query text are kept as decimal  *)
(* digit strings, so that 64-bit values are exact.  A float64 is modelled   *)
(* as an exact decimal d * 10^e (or an infinity, or NaN); this is the       *)
(* float64 value for the literals of the input alphabets, whose fractions   *)
(* are exact in binary (.5) and whose mantissas stay below 2^53.            *)

MaxInt64 == "9223372036854775807"

MinInt64Abs == "9223372036854775808"

MaxUint64 == "18446744073709551615"

DigitVal(c) == Pos(c, Digits) - 1

DigitChar(n) == SubSeq(Digits, n + 1, n + 1)

RECURSIVE Zeros(_)
Zeros(n) == IF n <= 0 THEN "" ELSE "0" \o Zeros(n - 1)

\* a digit string without its leading zeros ("0" for zero)
RECURSIVE Canon(_)
Canon(d) ==
    IF d = "" THEN "0"
    ELSE IF Len(d) > 1 /\ SubSeq(d, 1, 1) = "0" THEN Canon(Tail(d))
    ELSE d

\* a < b and a <= b on canonical digit strings
DecLess(a, b) == Len(a) < Len(b) \/ (Len(a) = Len(b) /\ StrLess(a, b))

DecLeq(a, b) == a = b \/ DecLess(a, b)

\* fmt.Sprintf("%d", n) for a number of the model
RECURSIVE NatToStr(_)
NatToStr(n) == IF n < 10 THEN DigitChar(n) ELSE NatToStr(n \div 10) \o DigitChar(n % 10)

\* the value of a digit string of at most three digits
RECURSIVE StrToNat(_)
StrToNat(d) == IF d = "" THEN 0 ELSE StrToNat(SubSeq(d, 1, Len(d) - 1)) * 10 + DigitVal(SubSeq(d, Len(d), Len(d)))

\* digit string times a small number
RECURSIVE MulSmall(_, _, _)
MulSmall(d, n, carry) ==
    LET step(x) == MulSmall(SubSeq(d, 1, Len(d) - 1), n, x \div 10) \o DigitChar(x % 10)
    IN  IF d = "" THEN (IF carry = 0 THEN "" ELSE NatToStr(carry))
        ELSE step(DigitVal(SubSeq(d, Len(d), Len(d))) * n + carry)

\* a signed integer: sign and canonical magnitude
SInt(neg, d) ==
    LET make(c) == [neg |-> neg /\ c # "0", d |-> c]
    IN  make(Canon(d))

OfInt(n) == IF n < 0 THEN SInt(TRUE, NatToStr(0 - n)) ELSE SInt(FALSE, NatToStr(n))

SLess(a, b) ==
    IF a.neg /\ ~b.neg THEN TRUE
    ELSE IF ~a.neg /\ b.neg THEN FALSE
    ELSE IF a.neg THEN DecLess(b.d, a.d)
    ELSE DecLess(a.d, b.d)

\* the end of the run of digits of s that starts at position i
RECURSIVE digitsEnd(_, _)
digitsEnd(s, i) == IF isDigit(At(s, i)) THEN digitsEnd(s, i + 1) ELSE i

\* strconv.ParseInt(s, 10, 64): on a syntax error the value is 0, on a range
\* error the nearest limit
ParseInt(s) ==
    LET neg == At(s, 0) = "-"
        start == IF At(s, 0) = "-" \/ At(s, 0) = "+" THEN 1 ELSE 0
        limit == IF neg THEN MinInt64Abs ELSE MaxInt64
        value(d) ==
            IF DecLeq(d, limit) THEN [ok |-> TRUE, v |-> SInt(neg, d)] ELSE [ok |-> FALSE, v |-> SInt(neg, limit)]
        digits(stop) ==
            IF stop > start /\ stop = Len(s) THEN value(Canon(Slice(s, start, stop)))
            ELSE [ok |-> FALSE, v |-> SInt(FALSE, "0")]
    IN  digits(digitsEnd(s, start))

\* strconv.ParseUint(s, 10, 64)
ParseUint(s) ==
    LET value(d) ==
            IF DecLeq(d, MaxUint64) THEN [ok |-> TRUE, v |-> SInt(FALSE, d)]
            ELSE [ok |-> FALSE, v |-> SInt(FALSE, MaxUint64)]
        digits(stop) ==
            IF stop > 0 /\ stop = Len(s) THEN value(Canon(Slice(s, 0, stop)))
            ELSE [ok |-> FALSE, v |-> SInt(FALSE, "0")]
    IN  digits(digitsEnd(s, 0))

\* strconv.ParseBool; the callers ignore its error and use false
ParseBool(s) == s \in {"1", "t", "T", "TRUE", "true", "True"}

RECURSIVE FNorm(_)
FNorm(f) ==
    IF f.cls # "fin" THEN f
    ELSE IF Canon(f.d) = "0" THEN [f EXCEPT !.d = "0", !.e = 0]
    ELSE IF SubSeq(f.d, Len(f.d), Len(f.d)) = "0"
    THEN FNorm([f EXCEPT !.d = SubSeq(f.d, 1, Len(f.d) - 1), !.e = f.e + 1])
    ELSE [f EXCEPT !.d = Canon(f.d)]

Float(neg, d, e) == FNorm([cls |-> "fin", neg |-> neg, d |-> d, e |-> e])

FInf(neg) == [cls |-> "inf", neg |-> neg, d |-> "0", e |-> 0]

FNaN == [cls |-> "nan", neg |-> FALSE, d |-> "0", e |-> 0]

\* strconv.ParseFloat(s, 64) for decimal literals and the names of the
\* infinities and NaN (base-prefixed literals are outside the input
\* alphabets): the sign, the integer digits, the fraction, the exponent
ParseFloat(s) ==
    LET neg == At(s, 0) = "-"
        start == IF At(s, 0) = "-" \/ At(s, 0) = "+" THEN 1 ELSE 0
        invalid == [ok |-> FALSE, v |-> Float(FALSE, "0", 0)]
        \* beyond the largest float64 (about 1.8e308): a range error and an infinity
        finite(f) ==
            IF f.d # "0" /\ Len(f.d) + f.e > 309 THEN [ok |-> FALSE, v |-> FInf(neg)] ELSE [ok |-> TRUE, v |-> f]
        number(mant, nfrac, exp) == IF mant = "" THEN invalid ELSE finite(Float(neg, mant, exp - nfrac))
        \* exponents of the input alphabets have at most three digits
        expVal(eabs) == IF Len(eabs) > 3 THEN 999 ELSE StrToNat(eabs)
        exponent(mant, nfrac, eneg, estart, eend) ==
            IF eend > estart /\ eend = Len(s)
            THEN number(mant, nfrac, (IF eneg THEN 0 - 1 ELSE 1) * expVal(Canon(Slice(s, estart, eend))))
            ELSE invalid
        signedExponent(mant, nfrac, eneg, estart) == exponent(mant, nfrac, eneg, estart, digitsEnd(s, estart))
        afterMantissa(mant, nfrac, fend) ==
            IF At(s, fend) = "e" \/ At(s, fend) = "E"
            THEN signedExponent(mant, nfrac, At(s, fend + 1) = "-",
                                IF At(s, fend + 1) = "-" \/ At(s, fend + 1) = "+" THEN fend + 2 ELSE fend + 1)
            ELSE IF fend = Len(s) THEN number(mant, nfrac, 0)
            ELSE invalid
        fraction(iend, fend) ==
            afterMantissa(Slice(s, start, iend) \o Slice(s, iend + 1, fend), fend - (iend + 1), fend)
        integer(iend) ==
            IF At(s, iend) = "." THEN fraction(iend, digitsEnd(s, iend + 1))
            ELSE afterMantissa(Slice(s, start, iend), 0, iend)
        special(rest) ==
            IF rest = "inf" \/ rest = "infinity" THEN [ok |-> TRUE, v |-> FInf(neg)]
            ELSE IF start = 0 /\ rest = "nan" THEN [ok |-> TRUE, v |-> FNaN]
            ELSE integer(digitsEnd(s, start))
    IN  special(ToLower(Slice(s, start, Len(s))))

\* f * 10^k
FMulPow10(f, k) == IF f.cls = "fin" THEN Float(f.neg, f.d, f.e + k) ELSE f

\* f * n for a small non-negative integer n
FMulSmall(f, n) == IF f.cls = "fin" THEN Float(f.neg, MulSmall(f.d, n, 0), f.e) ELSE f

\* the magnitude of the integer part of a finite f, as digits
FTruncDigits(f) ==
    IF f.e >= 0 THEN Canon(f.d \o Zeros(f.e))
    ELSE IF 0 - f.e >= Len(f.d) THEN "0"
    ELSE SubSeq(f.d, 1, Len(f.d) + f.e)

\* parsedFloat == float64(int64(parsedFloat)): a whole number inside int64
\* (outside it the conversion does not give the number back)
FIsInt64(f) == f.cls = "fin" /\ f.e >= 0 /\ DecLeq(FTruncDigits(f), MaxInt64)

\* a < b on floats; every comparison with NaN is false
FLess(a, b) ==
    LET aligned(k) == SLess(SInt(a.neg, a.d \o Zeros(a.e - k)), SInt(b.neg, b.d \o Zeros(b.e - k)))
    IN  IF a.cls = "nan" \/ b.cls = "nan" THEN FALSE
        ELSE IF a.cls = "inf" THEN a.neg /\ ~(b.cls = "inf" /\ b.neg)
        ELSE IF b.cls = "inf" THEN ~b.neg
        ELSE aligned(IF a.e < b.e THEN a.e ELSE b.e)

FEq(a, b) ==
    IF a.cls = "nan" \/ b.cls = "nan" THEN FALSE
    ELSE IF a.cls = "inf" \/ b.cls = "inf" THEN a.cls = b.cls /\ a.neg = b.neg
    ELSE a.d = b.d /\ a.e = b.e /\ (a.neg = b.neg \/ a.d = "0")

\* fmt.Sprintf("%g", f): the shortest digits; exponent form when the decimal
\* exponent is below -4 or at least 6
FormatG(f) ==
    IF f.cls = "nan" THEN "NaN"
    ELSE IF f.cls = "inf" THEN (IF f.neg THEN "-Inf" ELSE "+Inf")
    ELSE IF f.d = "0" THEN (IF f.neg THEN "-0" ELSE "0")
    ELSE LET digs == f.d
             nd == Len(digs)
             dp == nd + f.e
             exp == dp - 1
             sign == IF f.neg THEN "-" ELSE ""
             aexp == IF exp < 0 THEN 0 - exp ELSE exp
         IN  IF exp < 0 - 4 \/ exp >= 6
             THEN sign \o SubSeq(digs, 1, 1) \o (IF nd > 1 THEN "." \o SubSeq(digs, 2, nd) ELSE "")
                  \o "e" \o (IF exp < 0 THEN "-" ELSE "+") \o (IF aexp < 10 THEN "0" ELSE "") \o NatToStr(aexp)
             ELSE IF dp <= 0 THEN sign \o "0." \o Zeros(0 - dp) \o digs
             ELSE IF dp >= nd THEN sign \o digs \o Zeros(dp - nd)
             ELSE sign \o SubSeq(digs, 1, dp) \o "." \o SubSeq(digs, dp + 1, nd)

-----------------------------------------------------------------------------
(* The value normalizer *)

\* the end of the leading run of digits, '.' and ',' of s (humanize.ParseBytes)
RECURSIVE numberEnd(_, _)
numberEnd(s, i) ==
    IF InStr(At(s, i), "0123456789.,") THEN numberEnd(s, i + 1) ELSE i

\* bytesSizeTable of go-humanize: the unit (lower case) to base and power
BytesSizeTable ==
    [b |-> <<1, 0>>, k |-> <<10, 3>>, kb |-> <<10, 3>>, ki |-> <<1024, 1>>, kib |-> <<1024, 1>>,
     m |-> <<10, 6>>, mb |-> <<10, 6>>, mi |-> <<1024, 2>>, mib |-> <<1024, 2>>,
     g |-> <<10, 9>>, gb |-> <<10, 9>>, gi |-> <<1024, 3>>, gib |-> <<1024, 3>>,
     t |-> <<10, 12>>, tb |-> <<10, 12>>, ti |-> <<1024, 4>>, tib |-> <<1024, 4>>,
     p |-> <<10, 15>>, pb |-> <<10, 15>>, pi |-> <<1024, 5>>, pib |-> <<1024, 5>>,
     e |-> <<10, 18>>, eb |-> <<10, 18>>, ei |-> <<1024, 6>>, eib |-> <<1024, 6>>]

RECURSIVE FMulPow(_, _, _)
FMulPow(f, base, pow) ==
    IF base = 10 THEN FMulPow10(f, pow)
    ELSE IF pow = 0 THEN f
    ELSE FMulPow(FMulSmall(f, base), base, pow - 1)

\* humanize.ParseBytes(s): ok and the uint64 as digits
ParseBytes(s) ==
    LET failed == [ok |-> FALSE, v |-> "0"]
        bytes(d) == IF DecLeq(d, MaxUint64) THEN [ok |-> TRUE, v |-> d] ELSE failed
        scaled(f, unit) == bytes(FTruncDigits(FMulPow(f, unit[1], unit[2])))
        unitOf(pf, extra) ==
            IF ~pf.ok THEN failed
            ELSE IF extra = "" THEN scaled(pf.v, <<1, 0>>)
            ELSE IF extra \in DOMAIN BytesSizeTable THEN scaled(pf.v, BytesSizeTable[extra])
            ELSE failed
        split(lastDigit) ==
            unitOf(ParseFloat(StripCommas(Slice(s, 0, lastDigit))), ToLower(Slice(s, lastDigit, Len(s))))
    IN  split(numberEnd(s, 0))

\* the suffixes map of parseHumanizedNumber: the powers of ten
SISuffixes ==
    [K |-> 3, k |-> 3, M |-> 6, m |-> 6, G |-> 9, g |-> 9, T |-> 12, t |-> 12, P |-> 15, p |-> 15, E |-> 18, e |-> 18]

parseHumanizedNumber(s) ==
    LET suffixed(last, pre) ==
            IF last \in DOMAIN SISuffixes /\ pre.ok THEN [ok |-> TRUE, v |-> FMulPow10(pre.v, SISuffixes[last])]
            ELSE ParseFloat(s)
    IN  IF s = "" THEN [ok |-> FALSE, v |-> Float(FALSE, "0", 0)]
        ELSE suffixed(At(s, Len(s) - 1), ParseFloat(Slice(s, 0, Len(s) - 1)))

parseCommaSeparatedNumber(s) ==
    IF s # "" /\ Contains(s, ",") /\ ~Contains(s, ".") THEN ParseInt(StripCommas(s))
    ELSE [ok |-> FALSE, v |-> SInt(FALSE, "0")]

SIntToStr(v) == (IF v.neg THEN "-" ELSE "") \o v.d

\* what normalizeHumanizedValues writes for one token
normalizeToken(token) ==
    LET commas(pc1) == IF pc1.ok THEN SIntToStr(pc1.v) ELSE token
        humanized(ph) ==
            IF ph.ok
            THEN (IF FIsInt64(ph.v) THEN SIntToStr(SInt(ph.v.neg, FTruncDigits(ph.v))) ELSE FormatG(ph.v))
            ELSE commas(parseCommaSeparatedNumber(token))
        bytes(pb) == IF pb.ok THEN pb.v ELSE humanized(parseHumanizedNumber(token))
    IN  bytes(IF containsLetters(token) THEN ParseBytes(token) ELSE [ok |-> FALSE, v |-> "0"])

\* the end of the quoted string whose opening quote is at i - 1
RECURSIVE quotedEnd(_, _)
quotedEnd(q, i) ==
    IF i < Len(q) /\ At(q, i) # "'"
    THEN (IF At(q, i) = "\\" /\ i + 1 < Len(q) /\ At(q, i + 1) = "'" THEN quotedEnd(q, i + 2) ELSE quotedEnd(q, i + 1))
    ELSE (IF i < Len(q) THEN i + 1 ELSE i)

RECURSIVE tokenEnd(_, _)
tokenEnd(q, i) ==
    IF i < Len(q) /\ (isLetterOrDigit(At(q, i)) \/ At(q, i) = "." \/ At(q, i) = ",") THEN tokenEnd(q, i + 1) ELSE i

\* the main loop without the case of the quoted strings: a quote is copied
\* like any other character
RECURSIVE normalizeFromUnquoted(_, _)
normalizeFromUnquoted(q, i) ==
    LET token(j) == normalizeToken(Slice(q, i, j)) \o normalizeFromUnquoted(q, j)
    IN  IF i >= Len(q) THEN ""
        ELSE IF isLetterOrDigit(At(q, i)) \/ At(q, i) = "." THEN token(tokenEnd(q, i))
        ELSE At(q, i) \o normalizeFromUnquoted(q, i + 1)

\* the main loop of normalizeHumanizedValues from position i
RECURSIVE normalizeFrom(_, _)
normalizeFrom(q, i) ==
    LET quoted(j) == Slice(q, i, j) \o normalizeFrom(q, j)
        token(j) == normalizeToken(Slice(q, i, j)) \o normalizeFrom(q, j)
    IN  IF i >= Len(q) THEN ""
        ELSE IF At(q, i) = "'" THEN quoted(quotedEnd(q, i + 1))
        ELSE IF isLetterOrDigit(At(q, i)) \/ At(q, i) = "." THEN token(tokenEnd(q, i))
        ELSE At(q, i) \o normalizeFrom(q, i + 1)

normalizeHumanizedValues(q) == IF q = "" THEN q ELSE normalizeFrom(q, 0)

-----------------------------------------------------------------------------
(* The enhanced lexer.  A lexer value is the record of the EnhancedLexer    *)
(* struct; every method returns the lexer it leaves behind.                 *)

Token(type, literal) == [Type |-> type, Literal |-> literal]

newToken(tokenType, ch) == Token(tokenType, ch)

readChar(l) ==
    [l EXCEPT !.ch = IF l.readPosition >= Len(l.input) THEN NUL ELSE At(l.input, l.readPosition),
              !.position = l.readPosition,
              !.readPosition = l.readPosition + 1]

peekChar(l) == IF l.readPosition >= Len(l.input) THEN NUL ELSE At(l.input, l.readPosition)

peekTwoChars(l) == IF l.readPosition + 1 >= Len(l.input) THEN NUL ELSE At(l.input, l.readPosition + 1)

NewEnhancedLexer(input) == readChar([input |-> input, position |-> 0, readPosition |-> 0, ch |-> NUL])

LookupIdentifier(identifier) ==
    LET keyword(u) == IF u \in {"AND", "OR", "CONTAINS", "IS", "NULL", "NOT", "ANY"} THEN u ELSE "IDENTIFIER"
    IN  keyword(ToUpper(identifier))

RECURSIVE skipWhitespace(_)
skipWhitespace(l) == IF InStr(l.ch, " \t\n\r") THEN skipWhitespace(readChar(l)) ELSE l

RECURSIVE skipIdentChars(_)
skipIdentChars(l) ==
    IF isLetter(l.ch) \/ isDigit(l.ch) \/ l.ch = "." \/ l.ch = "_" THEN skipIdentChars(readChar(l)) ELSE l

\* returns the identifier and the lexer after it
readIdentifier(l) ==
    LET identifier(m) == [lit |-> Slice(l.input, l.position, m.position), l |-> m]
    IN  identifier(skipIdentChars(l))

RECURSIVE skipDigits(_)
skipDigits(l) == IF isDigit(l.ch) THEN skipDigits(readChar(l)) ELSE l

\* the loop over digits and commas of readNumber; hasDigits is carried along
RECURSIVE skipDigitsAndCommas(_, _)
skipDigitsAndCommas(l, hasDigits) ==
    IF isDigit(l.ch) \/ l.ch = ","
    THEN skipDigitsAndCommas(readChar(l), hasDigits \/ isDigit(l.ch))
    ELSE [l |-> l, hasDigits |-> hasDigits]

\* returns the literal and the lexer after it: the sign, the integer part
\* with its commas, the decimal part, the exponent
readNumber(l) ==
    LET number(m) == [lit |-> Slice(l.input, l.position, m.position), l |-> m]
        exponentDigits(a) == number(skipDigits(IF a.ch = "+" \/ a.ch = "-" THEN readChar(a) ELSE a))
        exponent(l3) ==
            IF (l3.ch = "e" \/ l3.ch = "E")
               /\ (isDigit(peekChar(l3))
                   \/ ((peekChar(l3) = "+" \/ peekChar(l3) = "-") /\ isDigit(peekTwoChars(l3))))
            THEN exponentDigits(readChar(l3))
            ELSE number(l3)
        decimal(r2) ==
            IF ~r2.hasDigits THEN number(r2.l)
            ELSE IF r2.l.ch = "." /\ isDigit(peekChar(r2.l)) THEN exponent(skipDigits(readChar(r2.l)))
            ELSE exponent(r2.l)
    IN  decimal(skipDigitsAndCommas(IF l.ch = "-" THEN readChar(l) ELSE l, FALSE))

\* the loop of readString: read a character, stop at a quote or the end,
\* skip the backslash of an escaped quote
RECURSIVE scanString(_)
scanString(l) ==
    LET read(m) ==
            IF m.ch = "'" \/ m.ch = NUL THEN m
            ELSE IF m.ch = "\\" /\ peekChar(m) = "'" THEN scanString(readChar(m))
            ELSE scanString(m)
    IN  read(readChar(l))

UnclosedMarker == "_UNCLOSED_STRING_"

\* readString that reads the text and leaves the lexer at the opening quote
readStringStuck(l) ==
    LET literal(m) == Slice(l.input, l.position + 1, m.position)
        closing(m) ==
            IF m.ch = NUL THEN [lit |-> UnclosedMarker \o literal(m), l |-> l]
            ELSE [lit |-> literal(m), l |-> l]
    IN  closing(scanString(l))

\* returns the literal (marked when the string is unclosed) and the lexer
\* after it
readString(l) ==
    LET literal(m) == Slice(l.input, l.position + 1, m.position)
        closing(m) ==
            IF m.ch = NUL THEN [lit |-> UnclosedMarker \o literal(m), l |-> m]
            ELSE [lit |-> literal(m), l |-> readChar(m)]
    IN  closing(scanString(l))

\* NextToken: the token and the lexer after it.  A case of the switch either
\* returns its token or leaves it to the readChar that ends the function.
NextToken(l0) ==
    LET switch(l) ==
            LET one(type) == [tok |-> newToken(type, l.ch), l |-> l, returned |-> FALSE]
                second(type, m) == [tok |-> Token(type, l.ch \o m.ch), l |-> m, returned |-> FALSE]
                two(type) == second(type, readChar(l))
                number(prefix, r) == [tok |-> Token("NUMBER", prefix \o r.lit), l |-> r.l, returned |-> TRUE]
                string(r) ==
                    IF HasPrefix(r.lit, UnclosedMarker)
                    THEN [tok |-> Token("ILLEGAL", "unclosed string: " \o SubSeq(r.lit, Len(UnclosedMarker) + 1, Len(r.lit))),
                          l |-> r.l, returned |-> TRUE]
                    ELSE [tok |-> Token("STRING", r.lit), l |-> r.l, returned |-> TRUE]
                identifier(r) == [tok |-> Token(LookupIdentifier(r.lit), r.lit), l |-> r.l, returned |-> TRUE]
            IN  CASE l.ch = "=" -> one("EQ")
                  [] l.ch = "!" -> IF peekChar(l) = "=" THEN two("NE") ELSE one("ILLEGAL")
                  [] l.ch = "<" -> IF peekChar(l) = "=" THEN two("LE") ELSE one("LT")
                  [] l.ch = ">" -> IF peekChar(l) = "=" THEN two("GE") ELSE one("GT")
                  [] l.ch = "(" -> one("LPAREN")
                  [] l.ch = ")" -> one("RPAREN")
                  [] l.ch = "," ->
                        IF isDigit(peekChar(l)) /\ l.position > 0 /\ isDigit(At(l.input, l.position - 1))
                        THEN number(",", readNumber(l))
                        ELSE one("COMMA")
                  [] l.ch = "'" -> string(readString(l))
                  [] l.ch = "-" -> IF isDigit(peekChar(l)) THEN number("", readNumber(l)) ELSE one("ILLEGAL")
                  [] l.ch = NUL -> [tok |-> Token("EOF", ""), l |-> l, returned |-> FALSE]
                  [] OTHER ->
                        IF isLetter(l.ch) THEN identifier(readIdentifier(l))
                        ELSE IF isDigit(l.ch) THEN number("", readNumber(l))
                        ELSE one("ILLEGAL")
        end(c) == [tok |-> c.tok, l |-> IF c.returned THEN c.l ELSE readChar(c.l)]
    IN  end(switch(skipWhitespace(l0)))

\* every token of the input up to and including EOF
RECURSIVE Tokens(_)
Tokens(l) ==
    LET rest(r) == IF r.tok.Type = "EOF" THEN <<r.tok>> ELSE <<r.tok>> \o Tokens(r.l)
    IN  rest(NextToken(l))

Tokenize(input) == Tokens(NewEnhancedLexer(input))

-----------------------------------------------------------------------------
(* Expression trees *)

Nil == [node |-> "nil"]

ComparisonExpression(field, operator, value) ==
    [node |-> "Comparison", Field |-> field, Operator |-> operator, Value |-> value]

AnyExpression(field, operator, values) ==
    [node |-> "Any", Field |-> field, Operator |-> operator, Values |-> values]

NotExpression(expr) == [node |-> "Not", Expression |-> expr]

IsNullExpression(field, not) == [node |-> "IsNull", Field |-> field, Not |-> not]

ConjunctionExpression(exprs) == [node |-> "Conjunction", Expressions |-> exprs]

OrExpression(exprs) == [node |-> "Or", Expressions |-> exprs]

ComparisonOperators == {"EQ", "NE", "LT", "GT", "GE", "LE", "CONTAINS"}

-----------------------------------------------------------------------------
(* The parser.  A parser value is the record of the Parser struct; every    *)
(* parse method returns the parser it leaves behind and its result.  The    *)
(* lexer of the parser is held as the tokens its next calls of NextToken    *)
(* return, up to the EOF token, which it returns from then on.              *)

nextToken(p) ==
    [l |-> IF Len(p.l) > 1 THEN Tail(p.l) ELSE p.l,
     currentToken |-> p.peekToken,
     peekToken |-> Head(p.l),
     errors |-> IF Head(p.l).Type = "ILLEGAL" THEN Append(p.errors, Head(p.l).Literal) ELSE p.errors]

NewParser(l) ==
    nextToken(nextToken([l |-> Tokens(l), currentToken |-> Token("", ""), peekToken |-> Token("", ""), errors |-> <<>>]))

currentTokenIs(p, t) == p.currentToken.Type = t

addError(p, msg) == [p EXCEPT !.errors = Append(p.errors, msg)]

Res(p, e) == [p |-> p, e |-> e]

parseComparisonWithField(p, field) ==
    LET operator == p.currentToken.Type
        \* entered with the current token the one after the operator
        value(p1) ==
            IF p1.currentToken.Type = "NUMBER" /\ p1.peekToken.Type = "IDENTIFIER"
            THEN [p |-> p1, e |-> Nil,
                  err |-> "invalid numeric value: " \o p1.currentToken.Literal \o p1.peekToken.Literal]
            ELSE IF p1.currentToken.Type = "NUMBER" /\ containsLetters(p1.currentToken.Literal)
                    /\ ~(Contains(p1.currentToken.Literal, "e") \/ Contains(p1.currentToken.Literal, "E"))
            THEN [p |-> p1, e |-> Nil, err |-> "invalid numeric value: " \o p1.currentToken.Literal]
            ELSE [p |-> nextToken(p1), e |-> ComparisonExpression(field, operator, p1.currentToken.Literal), err |-> ""]
    IN  IF p.currentToken.Type \notin ComparisonOperators
        THEN [p |-> p, e |-> Nil,
              err |-> "expected operator (=, !=, <, >, <=, >=, CONTAINS), got " \o p.currentToken.Type
                      \o " (\"" \o p.currentToken.Literal \o "\")"]
        ELSE value(nextToken(p))

\* the loop that reads ", value" pairs of an ANY(...) value list
RECURSIVE anyValues(_, _)
anyValues(p, values) ==
    LET value(p1) ==
            IF ~currentTokenIs(p1, "STRING") /\ ~currentTokenIs(p1, "NUMBER")
            THEN [p |-> addError(p1, "expected string or number value after comma in ANY()"), ok |-> FALSE, values |-> values]
            ELSE anyValues(nextToken(p1), Append(values, p1.currentToken.Literal))
    IN  IF currentTokenIs(p, "COMMA") THEN value(nextToken(p))
        ELSE [p |-> p, ok |-> TRUE, values |-> values]

\* the ANY branch of parsePrimary, entered with the current token ANY; each
\* step is entered with the current token the one it checks
parseAny(p) ==
    LET closeValues(field, operator, r) ==
            IF ~r.ok THEN Res(r.p, Nil)
            ELSE IF ~currentTokenIs(r.p, "RPAREN") THEN Res(addError(r.p, "expected ')' after values in ANY()"), Nil)
            ELSE Res(nextToken(r.p), AnyExpression(field, operator, r.values))
        firstValue(field, operator, p7) ==
            IF ~currentTokenIs(p7, "STRING") /\ ~currentTokenIs(p7, "NUMBER")
            THEN Res(addError(p7, "expected string or number value in ANY()"), Nil)
            ELSE closeValues(field, operator, anyValues(nextToken(p7), <<p7.currentToken.Literal>>))
        openValues(field, operator, p6) ==
            IF ~currentTokenIs(p6, "LPAREN") THEN Res(addError(p6, "expected '(' after ANY"), Nil)
            ELSE firstValue(field, operator, nextToken(p6))
        values(field, operator, p5) ==
            IF currentTokenIs(p5, "ANY") THEN openValues(field, operator, nextToken(p5))
            ELSE IF currentTokenIs(p5, "STRING") \/ currentTokenIs(p5, "NUMBER")
            THEN Res(nextToken(p5), AnyExpression(field, operator, <<p5.currentToken.Literal>>))
            ELSE Res(addError(p5, "expected ANY() for values or a direct value"), Nil)
        comparator(field, p4) ==
            IF p4.currentToken.Type \notin ComparisonOperators
            THEN Res(addError(p4, "expected comparison operator (=, !=, <, >, <=, >=, CONTAINS) after ANY()"), Nil)
            ELSE values(field, p4.currentToken.Type, nextToken(p4))
        closeField(field, p3) ==
            IF ~currentTokenIs(p3, "RPAREN") THEN Res(addError(p3, "expected ')' after field name in ANY()"), Nil)
            ELSE comparator(field, nextToken(p3))
        fieldName(p2) ==
            IF ~currentTokenIs(p2, "IDENTIFIER") THEN Res(addError(p2, "expected field name inside ANY()"), Nil)
            ELSE closeField(p2.currentToken.Literal, nextToken(p2))
        openField(p1) ==
            IF ~currentTokenIs(p1, "LPAREN") THEN Res(addError(p1, "expected '(' after ANY"), Nil)
            ELSE fieldName(nextToken(p1))
    IN  openField(nextToken(p))

\* the IDENTIFIER branch of parsePrimary, entered with the current token the field
parseField(p) ==
    LET field == p.currentToken.Literal
        comparison(r) == IF r.err # "" THEN Res(addError(r.p, r.err), Nil) ELSE Res(r.p, r.e)
        null(not, p3) ==
            IF currentTokenIs(p3, "NULL") THEN Res(nextToken(p3), IsNullExpression(field, not))
            ELSE Res(addError(p3, "expected NULL after IS"), Nil)
        isClause(p2) == null(currentTokenIs(p2, "NOT"), IF currentTokenIs(p2, "NOT") THEN nextToken(p2) ELSE p2)
        afterField(p1) ==
            IF currentTokenIs(p1, "IS") THEN isClause(nextToken(p1))
            ELSE comparison(parseComparisonWithField(p1, field))
    IN  afterField(nextToken(p))

\* "Skip to matching parenthesis or EOF"
RECURSIVE skipToRParen(_)
skipToRParen(p) ==
    IF ~currentTokenIs(p, "EOF") /\ ~currentTokenIs(p, "RPAREN") THEN skipToRParen(nextToken(p)) ELSE p

RECURSIVE parseOrExpression(_)
RECURSIVE parseAndExpression(_)
RECURSIVE parsePrimary(_)
RECURSIVE orLoop(_, _)
RECURSIVE andLoop(_, _)

parsePrimary(p) ==
    LET negated(r) ==
            IF r.e = Nil THEN Res(addError(r.p, "invalid expression after NOT"), Nil)
            ELSE Res(r.p, NotExpression(r.e))
        skipped(q1) == Res(IF currentTokenIs(q1, "RPAREN") THEN nextToken(q1) ELSE q1, Nil)
        closeParen(r) ==
            IF r.e = Nil THEN skipped(skipToRParen(addError(r.p, "invalid expression inside parentheses")))
            ELSE IF currentTokenIs(r.p, "RPAREN") THEN Res(nextToken(r.p), r.e)
            ELSE Res(addError(IF r.p.currentToken.Type = "EOF"
                              THEN addError(r.p, "unbalanced parenthesis: missing closing parenthesis at end of input")
                              ELSE r.p,
                              "unbalanced parenthesis: missing closing )"), Nil)
        openParen(p1) ==
            IF currentTokenIs(p1, "RPAREN") THEN Res(nextToken(p1), ConjunctionExpression(<<>>))
            ELSE closeParen(parseOrExpression(p1))
    IN  IF currentTokenIs(p, "NOT") THEN negated(parsePrimary(nextToken(p)))
        ELSE IF currentTokenIs(p, "LPAREN") THEN openParen(nextToken(p))
        ELSE IF currentTokenIs(p, "ANY") THEN parseAny(p)
        ELSE IF currentTokenIs(p, "IDENTIFIER") THEN parseField(p)
        ELSE IF ~currentTokenIs(p, "EOF")
        THEN Res(nextToken(addError(p, "unexpected token: " \o p.currentToken.Literal)), Nil)
        ELSE Res(p, Nil)

\* the for loop of parseAndExpression, entered with the left operand built so far
andLoop(p, expr) ==
    LET right(r) ==
            IF r.e = Nil THEN Res(addError(r.p, "invalid expression after AND"), expr)
            ELSE andLoop(r.p, IF expr.node = "Conjunction"
                              THEN ConjunctionExpression(Append(expr.Expressions, r.e))
                              ELSE ConjunctionExpression(<<expr, r.e>>))
    IN  IF ~currentTokenIs(p, "AND") THEN Res(p, expr)
        ELSE right(parsePrimary(nextToken(p)))

parseAndExpression(p) ==
    LET left(r) == IF r.e = Nil THEN Res(r.p, Nil) ELSE andLoop(r.p, r.e)
    IN  left(parsePrimary(p))

\* the for loop of parseOrExpression
orLoop(p, expr) ==
    LET right(r) ==
            IF r.e = Nil THEN Res(addError(r.p, "invalid expression after OR"), expr)
            ELSE orLoop(r.p, IF expr.node = "Or"
                             THEN OrExpression(Append(expr.Expressions, r.e))
                             ELSE OrExpression(<<expr, r.e>>))
    IN  IF ~currentTokenIs(p, "OR") THEN Res(p, expr)
        ELSE right(parseAndExpression(nextToken(p)))

parseOrExpression(p) ==
    LET left(r) == orLoop(r.p, r.e)
    IN  left(parseAndExpression(p))

RECURSIVE skipLeadingAndOr(_)
skipLeadingAndOr(p) ==
    IF p.currentToken.Type = "AND" \/ p.currentToken.Type = "OR" THEN skipLeadingAndOr(nextToken(p)) ELSE p

RECURSIVE skipRParens(_)
skipRParens(p) == IF p.currentToken.Type = "RPAREN" THEN skipRParens(nextToken(p)) ELSE p

RECURSIVE JoinErrors(_)
JoinErrors(errs) ==
    IF errs = <<>> THEN ""
    ELSE IF Len(errs) = 1 THEN errs[1]
    ELSE errs[1] \o "; " \o JoinErrors(Tail(errs))

\* ParseQuery: the parser left behind, the tree (Nil for nil) and the error
\* ("" for nil)
ParseQuery(p) ==
    LET errorsOf(e, p2) ==
            IF Len(p2.errors) > 0 THEN [p |-> p2, e |-> Nil, err |-> JoinErrors(p2.errors)]
            ELSE [p |-> p2, e |-> e, err |-> ""]
        trailing(e, p1) ==
            errorsOf(e, IF p1.currentToken.Type # "EOF" /\ Len(p1.errors) = 0
                        THEN addError(p1, "unexpected token after end of query")
                        ELSE p1)
        parsed(r) ==
            IF r.p.currentToken.Type = "ILLEGAL"
            THEN [p |-> addError(r.p, r.p.currentToken.Literal), e |-> Nil, err |-> r.p.currentToken.Literal]
            ELSE trailing(r.e, IF r.p.currentToken.Type = "RPAREN"
                               THEN skipRParens(addError(r.p, "unbalanced parenthesis: unexpected closing )"))
                               ELSE r.p)
    IN  IF p.currentToken.Type = "EOF" THEN [p |-> p, e |-> Nil, err |-> ""]
        ELSE IF p.currentToken.Type = "ILLEGAL"
        THEN [p |-> addError(p, p.currentToken.Literal), e |-> Nil, err |-> p.currentToken.Literal]
        ELSE parsed(parseOrExpression(skipLeadingAndOr(p)))

-----------------------------------------------------------------------------
(* Records: the reflect.Value of a Go value, tagged with its Kind.  A nil   *)
(* pointer keeps no element; a struct lists its fields in declaration order.*)

StringV(s) == [k |-> "string", s |-> s]

IntV(n) == [k |-> "int", n |-> n]

UintV(n) == [k |-> "uint", n |-> n]

FloatV(f) == [k |-> "float", f |-> f]

BoolV(b) == [k |-> "bool", b |-> b]

PtrV(v) == [k |-> "ptr", nil |-> FALSE, elem |-> <<v>>]

NilPtr == [k |-> "ptr", nil |-> TRUE, elem |-> <<>>]

SliceV(elems) == [k |-> "slice", nil |-> FALSE, elems |-> elems]

NilSlice == [k |-> "slice", nil |-> TRUE, elems |-> <<>>]

StructV(names, vals) == [k |-> "struct", names |-> names, vals |-> vals]

\* a map with string keys; keys lists MapKeys() in the order of one iteration
\* (MapKeysIn gives the others)
MapV(keys, vals) == [k |-> "map", nil |-> FALSE, keys |-> keys, vals |-> vals]

Invalid == [k |-> "invalid"]

Kind(v) == v.k

IsNilV(v) == v.nil

\* v.Elem() of a pointer or interface
Elem(v) == IF v.nil THEN Invalid ELSE v.elem[1]

\* the most keys of a map of the records
MaxKeys == 2

\* the orders in which MapKeys() may return the keys of a map: Go leaves the
\* order unspecified
KeyOrders == {p \in [1..MaxKeys -> 1..MaxKeys] : \A i, j \in 1..MaxKeys : p[i] = p[j] => i = j}

\* the value with the keys of each of its maps in the order that a
\* permutation of 1..MaxKeys gives them
RECURSIVE MapKeysIn(_, _)
MapKeysIn(v, order) ==
    LET each(vs) == [i \in 1..Len(vs) |-> MapKeysIn(vs[i], order)]
        own == SelectSeq(order, LAMBDA x : x <= Len(v.keys))
    IN  CASE Kind(v) = "map" /\ Len(v.keys) <= MaxKeys ->
                [v EXCEPT !.keys = [i \in 1..Len(own) |-> v.keys[own[i]]],
                          !.vals = [i \in 1..Len(own) |-> MapKeysIn(v.vals[own[i]], order)]]
          [] Kind(v) = "struct" -> [v EXCEPT !.vals = each(v.vals)]
          [] Kind(v) = "ptr" \/ Kind(v) = "interface" -> [v EXCEPT !.elem = each(v.elem)]
          [] Kind(v) = "slice" -> [v EXCEPT !.elems = each(v.elems)]
          [] OTHER -> v

\* the loops over the field names of a struct and over the keys of a map:
\* the index of the first name from i on that equals name under case
\* folding, 0 if there is none
RECURSIVE firstEqualFold(_, _, _)
firstEqualFold(names, name, i) ==
    IF i > Len(names) THEN 0
    ELSE IF EqualFold(names[i], name) THEN i
    ELSE firstEqualFold(names, name, i + 1)

\* getMapValue: the value of the first key of the iteration that matches
getMapValue(mapValue, key) ==
    LET unwrap(value) == IF Kind(value) = "interface" THEN Elem(value) ELSE value
        found(i) == IF i = 0 THEN Invalid ELSE unwrap(mapValue.vals[i])
    IN  IF Kind(mapValue) = "map" THEN found(firstEqualFold(mapValue.keys, key, 1)) ELSE Invalid

getFieldByNameCaseInsensitive(val, name) ==
    LET found(i) == IF i = 0 THEN Invalid ELSE val.vals[i]
    IN  IF Kind(val) = "map" THEN getMapValue(val, name)
        ELSE found(firstEqualFold(val.names, name, 1))

\* what one element of a slice contributes to the next values
sliceElemStep(elem0, part) ==
    LET valid(field) == IF Kind(field) # "invalid" THEN <<field>> ELSE <<>>
        step(elem) ==
            IF Kind(elem) = "struct" \/ Kind(elem) = "map" THEN valid(getFieldByNameCaseInsensitive(elem, part))
            ELSE <<elem>>
        interface(e1) == step(IF Kind(e1) = "interface" THEN Elem(e1) ELSE e1)
    IN  IF Kind(elem0) = "ptr" /\ IsNilV(elem0) THEN <<>>
        ELSE interface(IF Kind(elem0) = "ptr" THEN Elem(elem0) ELSE elem0)

RECURSIVE sliceStep(_, _)
sliceStep(elems, part) ==
    IF elems = <<>> THEN <<>> ELSE sliceElemStep(Head(elems), part) \o sliceStep(Tail(elems), part)

\* what one current value contributes to the next values for a path part
valueStep(val0, part) ==
    LET valid(field) == IF Kind(field) # "invalid" THEN <<field>> ELSE <<>>
        step(val) ==
            CASE Kind(val) = "slice" -> sliceStep(val.elems, part)
              [] Kind(val) = "struct" -> valid(getFieldByNameCaseInsensitive(val, part))
              [] Kind(val) = "map" -> valid(getMapValue(val, part))
              [] OTHER -> <<val>>
        interface(v1) == step(IF Kind(v1) = "interface" THEN Elem(v1) ELSE v1)
    IN  IF Kind(val0) = "ptr" /\ IsNilV(val0) THEN <<>>
        ELSE interface(IF Kind(val0) = "ptr" THEN Elem(val0) ELSE val0)

RECURSIVE valuesStep(_, _)
valuesStep(vals, part) ==
    IF vals = <<>> THEN <<>> ELSE valueStep(Head(vals), part) \o valuesStep(Tail(vals), part)

RECURSIVE flattenLeaf(_)
flattenLeaf(vals) ==
    IF vals = <<>> THEN <<>>
    ELSE (IF Kind(Head(vals)) = "slice" THEN Head(vals).elems ELSE <<Head(vals)>>) \o flattenLeaf(Tail(vals))

\* the loop over the parts of the path
RECURSIVE resolveParts(_, _, _)
resolveParts(currentValues, parts, fieldPath) ==
    LET next(nextValues) ==
            IF Len(nextValues) = 0
            THEN [vals |-> <<>>, err |-> "field \"" \o Head(parts) \o "\" not found in path \"" \o fieldPath \o "\""]
            ELSE resolveParts(nextValues, Tail(parts), fieldPath)
    IN  IF parts = <<>> THEN [vals |-> flattenLeaf(currentValues), err |-> ""]
        ELSE next(valuesStep(currentValues, Head(parts)))

getFieldValues(item, fieldPath) == resolveParts(<<item>>, SplitDots(fieldPath, ""), fieldPath)

-----------------------------------------------------------------------------
(* The evaluator.  An outcome is the pair (bool, error) of Evaluate, with   *)
(* "" for a nil error.                                                      *)

Out(match, e) == [match |-> match, err |-> e]

\* the switch over the six ordering operators, given "equal" and "less"
compareOrdered(operator, eq, lt) ==
    CASE operator = "EQ" -> eq
      [] operator = "NE" -> ~eq
      [] operator = "LT" -> lt
      [] operator = "GT" -> ~lt /\ ~eq
      [] operator = "LE" -> lt \/ eq
      [] operator = "GE" -> ~lt
      [] OTHER -> FALSE

compareString(operator, s, value) ==
    IF operator = "CONTAINS" THEN Contains(s, value)
    ELSE compareOrdered(operator, s = value, StrLess(s, value))

compareBool(operator, b, value) ==
    CASE operator = "EQ" -> b = ParseBool(value)
      [] operator = "NE" -> b # ParseBool(value)
      [] OTHER -> FALSE

\* integer comparison of the field value n with the parsed literal v
compareInt(operator, n, v) == compareOrdered(operator, n = v, SLess(n, v))

\* float comparison: with NaN only != is true
compareFloat(operator, fv, v) ==
    LET switch(eq, lt, gt) ==
            CASE operator = "EQ" -> eq
              [] operator = "NE" -> ~eq
              [] operator = "LT" -> lt
              [] operator = "GT" -> gt
              [] operator = "LE" -> lt \/ eq
              [] operator = "GE" -> gt \/ eq
              [] OTHER -> FALSE
    IN  switch(FEq(fv, v), FLess(fv, v), FLess(v, fv))

\* the string held by a slice element, if it holds one
itemString(item0) ==
    LET string(item) ==
            IF Kind(item) = "string" THEN <<item.s>>
            ELSE IF Kind(item) = "interface" /\ ~IsNilV(item) /\ Kind(Elem(item)) = "string" THEN <<Elem(item).s>>
            ELSE <<>>
    IN  string(IF Kind(item0) = "ptr" /\ ~IsNilV(item0) THEN Elem(item0) ELSE item0)

\* the slice case of ComparisonExpression.compareValue: CONTAINS looks for
\* an element that is or contains the value, = and != for one that is it
compareSlice(operator, fieldValue, value) ==
    LET hit(s) == s # <<>> /\ (s[1] = value \/ (operator = "CONTAINS" /\ Contains(s[1], value)))
        has == \E i \in 1..Len(fieldValue.elems) : hit(itemString(fieldValue.elems[i]))
    IN  IF IsNilV(fieldValue) THEN FALSE
        ELSE CASE operator = "CONTAINS" -> has
               [] operator = "EQ" -> has
               [] operator = "NE" -> ~has
               [] OTHER -> FALSE

\* ComparisonExpression.compareValue
compareValue(ce, fieldValue0) ==
    LET cleanValue == StripCommas(ce.Value)
        invalid(domain, fn) ==
            Out(FALSE, "invalid " \o domain \o " value '" \o ce.Value \o "' for comparison with field '" \o ce.Field
                       \o "': strconv." \o fn \o ": parsing \"" \o cleanValue \o "\": invalid syntax")
        integer(n, r) == IF ~r.ok THEN invalid("integer", "ParseInt") ELSE Out(compareInt(ce.Operator, n, r.v), "")
        unsigned(n, r) ==
            IF ~r.ok THEN invalid("unsigned integer", "ParseUint") ELSE Out(compareInt(ce.Operator, n, r.v), "")
        float(f, r) ==
            IF ~r.ok THEN invalid("floating point", "ParseFloat") ELSE Out(compareFloat(ce.Operator, f, r.v), "")
        switch(fieldValue) ==
            CASE Kind(fieldValue) = "string" -> Out(compareString(ce.Operator, fieldValue.s, ce.Value), "")
              [] Kind(fieldValue) = "bool" -> Out(compareBool(ce.Operator, fieldValue.b, ce.Value), "")
              [] Kind(fieldValue) = "int" -> integer(OfInt(fieldValue.n), ParseInt(cleanValue))
              [] Kind(fieldValue) = "uint" -> unsigned(OfInt(fieldValue.n), ParseUint(cleanValue))
              [] Kind(fieldValue) = "float" -> float(fieldValue.f, ParseFloat(cleanValue))
              [] Kind(fieldValue) = "slice" -> Out(compareSlice(ce.Operator, fieldValue, ce.Value), "")
              [] OTHER -> Out(FALSE, "")
    IN  IF Kind(fieldValue0) = "ptr" /\ IsNilV(fieldValue0) THEN Out(FALSE, "")
        ELSE switch(IF Kind(fieldValue0) = "ptr" THEN Elem(fieldValue0) ELSE fieldValue0)

notFound(field) == "field '" \o field \o "' not found"

\* the loop of ComparisonExpression.Evaluate over the field values
RECURSIVE compareLoop(_, _, _)
compareLoop(ce, fieldValues, lastError) ==
    LET compared(r) ==
            IF r.err # "" THEN compareLoop(ce, Tail(fieldValues), r.err)
            ELSE IF r.match THEN Out(TRUE, "")
            ELSE compareLoop(ce, Tail(fieldValues), lastError)
    IN  IF fieldValues = <<>> THEN Out(FALSE, lastError)
        ELSE compared(compareValue(ce, Head(fieldValues)))

\* ComparisonExpression.Evaluate that returns a plain false where the
\* comparisons of the values have failed
EvaluateComparisonSilent(ce, item) ==
    LET resolved(r) ==
            IF r.err # "" \/ Len(r.vals) = 0 THEN Out(FALSE, notFound(ce.Field))
            ELSE Out(compareLoop(ce, r.vals, "").match, "")
    IN  resolved(getFieldValues(item, ce.Field))

EvaluateComparison(ce, item) ==
    LET resolved(r) ==
            IF r.err # "" \/ Len(r.vals) = 0 THEN Out(FALSE, notFound(ce.Field))
            ELSE compareLoop(ce, r.vals, "")
    IN  resolved(getFieldValues(item, ce.Field))

\* the string and integer and float cases of one element in the slice case
\* of AnyExpression.compareValue: "match", "nomatch" or "stop" (return false)
anyItem(operator, item0, value) ==
    LET hit(b) == IF b THEN "match" ELSE "nomatch"
        string(x) == hit(operator \in {"EQ", "NE", "CONTAINS"} /\ compareString(operator, x, value))
        integer(n, r) == IF ~r.ok THEN "stop" ELSE hit(compareInt(operator, n, r.v))
        float(f, r) == IF ~r.ok THEN "stop" ELSE hit(compareFloat(operator, f, r.v))
        switch(item) ==
            CASE Kind(item) = "string" -> string(item.s)
              [] Kind(item) = "int" -> integer(OfInt(item.n), ParseInt(value))
              [] Kind(item) = "float" -> float(item.f, ParseFloat(value))
              [] Kind(item) = "interface" ->
                    IF ~IsNilV(item) /\ Kind(Elem(item)) = "string" THEN string(Elem(item).s) ELSE "nomatch"
              [] OTHER -> "nomatch"
    IN  switch(IF Kind(item0) = "ptr" /\ ~IsNilV(item0) THEN Elem(item0) ELSE item0)

RECURSIVE anySliceLoop(_, _, _)
anySliceLoop(operator, elems, value) ==
    LET compared(r) ==
            IF r = "match" THEN TRUE
            ELSE IF r = "stop" THEN FALSE
            ELSE anySliceLoop(operator, Tail(elems), value)
    IN  IF elems = <<>> THEN FALSE
        ELSE compared(anyItem(operator, Head(elems), value))

\* AnyExpression.compareValue; it never returns an error
anyCompareValue(ae, fieldValue0, value) ==
    LET switch(fieldValue) ==
            CASE Kind(fieldValue) = "string" -> compareString(ae.Operator, fieldValue.s, value)
              [] Kind(fieldValue) = "bool" -> compareBool(ae.Operator, fieldValue.b, value)
              [] Kind(fieldValue) = "int" -> compareInt(ae.Operator, OfInt(fieldValue.n), ParseInt(value).v)
              [] Kind(fieldValue) = "uint" -> compareInt(ae.Operator, OfInt(fieldValue.n), ParseUint(value).v)
              [] Kind(fieldValue) = "float" -> compareFloat(ae.Operator, fieldValue.f, ParseFloat(value).v)
              [] Kind(fieldValue) = "slice" ->
                    ~IsNilV(fieldValue) /\ anySliceLoop(ae.Operator, fieldValue.elems, value)
              [] OTHER -> FALSE
    IN  IF Kind(fieldValue0) = "ptr" /\ IsNilV(fieldValue0) THEN FALSE
        ELSE switch(IF Kind(fieldValue0) = "ptr" THEN Elem(fieldValue0) ELSE fieldValue0)

EvaluateAny(ae, item) ==
    LET resolved(r) ==
            IF r.err # "" \/ Len(r.vals) = 0 THEN Out(FALSE, notFound(ae.Field))
            ELSE Out(\E i \in 1..Len(r.vals) : \E j \in 1..Len(ae.Values) :
                         anyCompareValue(ae, r.vals[i], ae.Values[j]), "")
    IN  resolved(getFieldValues(item, ae.Field))

\* reflect.Value.IsZero for the kinds that reach it
RECURSIVE IsZero(_)
IsZero(v) ==
    CASE Kind(v) = "string" -> v.s = ""
      [] Kind(v) = "int" -> v.n = 0
      [] Kind(v) = "uint" -> v.n = 0
      [] Kind(v) = "bool" -> ~v.b
      [] Kind(v) = "float" -> v.f.cls = "fin" /\ v.f.d = "0" /\ ~v.f.neg
      [] Kind(v) = "map" -> IsNilV(v)
      [] Kind(v) = "struct" -> \A i \in 1..Len(v.vals) : IsZero(v.vals[i])
      [] OTHER -> FALSE

\* isNullValue without the IsZero branch: only nil and empty collections are null
isNullValueNilOnly(v) ==
    IF Kind(v) = "ptr" \/ Kind(v) = "interface" THEN IsNilV(v)
    ELSE IF Kind(v) = "slice" THEN IsNilV(v) \/ Len(v.elems) = 0
    ELSE Kind(v) = "invalid"

\* whether the loop of IsNullExpression.Evaluate returns at the value v
isNullValue(v) ==
    IF Kind(v) = "ptr" \/ Kind(v) = "interface" THEN IsNilV(v)
    ELSE IF Kind(v) = "slice" THEN IsNilV(v) \/ Len(v.elems) = 0
    ELSE IF Kind(v) = "invalid" THEN TRUE
    ELSE IsZero(v)

EvaluateIsNull(e, item) ==
    LET resolved(r) ==
            IF r.err # "" \/ Len(r.vals) = 0 THEN Out(FALSE, notFound(e.Field))
            ELSE IF \E i \in 1..Len(r.vals) : isNullValue(r.vals[i]) THEN Out(~e.Not, "")
            ELSE Out(e.Not, "")
    IN  resolved(getFieldValues(item, e.Field))

\* "all conditions are on the same field": the loop that sets allCmp
allCmp(exprs) ==
    /\ \A i \in 1..Len(exprs) : exprs[i].node = "Comparison"
    /\ \A i \in 1..Len(exprs) : exprs[i].Field = exprs[1].Field

\* whether every comparison of the conjunction holds of the value (the
\* errors of compareValue are dropped)
allTrue(exprs, val) == \A i \in 1..Len(exprs) : compareValue(exprs[i], val).match

\* the special case of ConjunctionExpression.Evaluate for one shared field
sameFieldConjunction(exprs, item) ==
    LET values(v) ==
            IF Kind(v[1]) = "slice" THEN Out(\E i \in 1..Len(v[1].elems) : allTrue(exprs, v[1].elems[i]), "")
            ELSE Out(\A i \in 1..Len(v) : allTrue(exprs, v[i]), "")
        resolved(r) ==
            IF r.err # "" \/ Len(r.vals) = 0 THEN Out(FALSE, notFound(exprs[1].Field))
            ELSE values(r.vals)
    IN  resolved(getFieldValues(item, exprs[1].Field))

RECURSIVE Evaluate(_, _)
RECURSIVE conjunctionFallback(_, _)
RECURSIVE orLoopEvaluate(_, _)

\* the fallback loop of ConjunctionExpression.Evaluate
conjunctionFallback(exprs, item) ==
    LET evaluated1(r) ==
            IF r.err # "" THEN (IF Contains(r.err, "not found") THEN Out(FALSE, r.err) ELSE Out(FALSE, ""))
            ELSE IF ~r.match THEN Out(FALSE, "")
            ELSE conjunctionFallback(Tail(exprs), item)
    IN  IF exprs = <<>> THEN Out(TRUE, "")
        ELSE IF Head(exprs) = Nil THEN Out(FALSE, "")
        ELSE evaluated1(Evaluate(Head(exprs), item))

EvaluateConjunction(ce, item) ==
    IF Len(ce.Expressions) = 0 THEN Out(FALSE, "")
    ELSE IF Len(ce.Expressions) = 1 THEN Evaluate(ce.Expressions[1], item)
    ELSE IF allCmp(ce.Expressions) THEN sameFieldConjunction(ce.Expressions, item)
    ELSE conjunctionFallback(ce.Expressions, item)

orLoopEvaluate(exprs, item) ==
    LET evaluated1(r) == IF r.err = "" /\ r.match THEN Out(TRUE, "") ELSE orLoopEvaluate(Tail(exprs), item)
    IN  IF exprs = <<>> THEN Out(FALSE, "")
        ELSE evaluated1(Evaluate(Head(exprs), item))

EvaluateOr(oe, item) == orLoopEvaluate(oe.Expressions, item)

EvaluateNot(ne, item) ==
    LET negated(r) == IF r.err # "" THEN Out(FALSE, r.err) ELSE Out(~r.match, "")
    IN  negated(Evaluate(ne.Expression, item))

\* Expression.Evaluate: the dynamic dispatch on the node
Evaluate(e, item) ==
    CASE e.node = "Comparison" -> EvaluateComparison(e, item)
      [] e.node = "Any" -> EvaluateAny(e, item)
      [] e.node = "IsNull" -> EvaluateIsNull(e, item)
      [] e.node = "Not" -> EvaluateNot(e, item)
      [] e.node = "Conjunction" -> EvaluateConjunction(e, item)
      [] e.node = "Or" -> EvaluateOr(e, item)

-----------------------------------------------------------------------------
(* Parse.  The results are a Go slice: nil, or a sequence of records.       *)

NilResults == [nil |-> TRUE, items |-> <<>>]

Results(items) == [nil |-> FALSE, items |-> items]

\* Kind.String() of a value
KindName(v) == IF Kind(v) = "float" THEN "float64" ELSE Kind(v)

\* Parse from the normalization to the checks of the parser's outcome: the
\* tree, or the error Parse returns
parsePhase(q) ==
    LET parsed(r) ==
            IF r.err # "" THEN [ast |-> Nil, err |-> "failed to parse query: " \o r.err]
            ELSE IF Len(r.p.errors) > 0 THEN [ast |-> Nil, err |-> "parsing errors: " \o JoinErrors(r.p.errors)]
            ELSE IF r.e = Nil THEN [ast |-> Nil, err |-> "failed to parse query: AST is nil"]
            ELSE [ast |-> r.e, err |-> ""]
    IN  parsed(ParseQuery(NewParser(NewEnhancedLexer(normalizeHumanizedValues(q)))))

\* one iteration of the loop of Parse over the data: "skip" for a nil
\* pointer, "fail" with the error returned, "match" or "nomatch"
evaluateItem(expr, item) ==
    LET evaluated1(r) ==
            IF r.err # "" THEN [step |-> "fail", err |-> "evaluation error: " \o r.err]
            ELSE [step |-> IF r.match THEN "match" ELSE "nomatch", err |-> ""]
        struct(val) ==
            IF Kind(val) # "struct"
            THEN [step |-> "fail", err |-> "expected slice of structs, got " \o KindName(val) \o " in data"]
            ELSE evaluated1(Evaluate(expr, val))
    IN  IF Kind(item) = "ptr" /\ IsNilV(item) THEN [step |-> "skip", err |-> ""]
        ELSE struct(IF Kind(item) = "ptr" THEN Elem(item) ELSE item)

\* whether the iteration calls Evaluate
callsEvaluate(item) ==
    ~(Kind(item) = "ptr" /\ IsNilV(item))
    /\ Kind(IF Kind(item) = "ptr" THEN Elem(item) ELSE item) = "struct"

\* the loop of Parse from the record i on
RECURSIVE parseLoop(_, _, _, _)
parseLoop(expr, d, i, acc) ==
    LET step(r) ==
            IF r.step = "fail" THEN [results |-> NilResults, err |-> r.err]
            ELSE parseLoop(expr, d, i + 1, IF r.step = "match" THEN Append(acc, d[i]) ELSE acc)
    IN  IF i > Len(d) THEN [results |-> Results(acc), err |-> ""]
        ELSE step(evaluateItem(expr, d[i]))

\* Parse(query, data) as a function: the pair (results, err)
Parse(q, d) ==
    LET parsed(r) ==
            IF r.err # "" THEN [results |-> NilResults, err |-> r.err]
            ELSE parseLoop(r.ast, d, 1, <<>>)
    IN  IF q = "" THEN [results |-> Results(d), err |-> ""]
        ELSE parsed(parsePhase(q))

-----------------------------------------------------------------------------
(* The records of the tests: Person and Department of parser_test.go, Item  *)
(* and MetadataInfo of the ANY tests.                                       *)

NilMap == [k |-> "map", nil |-> TRUE, keys |-> <<>>, vals |-> <<>>]

Strings(ss) == SliceV([i \in 1..Len(ss) |-> StringV(ss[i])])

Ints(ns) == SliceV([i \in 1..Len(ns) |-> IntV(ns[i])])

Department(name, location) ==
    StructV(<<"Name", "Location">>, <<StringV(name), StringV(location)>>)

Person(name, age, isEmployed, skills, salary, department, tags) ==
    StructV(<<"Name", "Age", "IsEmployed", "Skills", "Salary", "Department", "Tags">>,
            <<StringV(name), IntV(age), BoolV(isEmployed), skills, FloatV(salary), department, tags>>)

MetadataInfo(categories, priority) ==
    StructV(<<"Categories", "Priority">>, <<categories, IntV(priority)>>)

Item(id, tags, metadata, scores, skills, active) ==
    StructV(<<"ID", "Tags", "Metadata", "Scores", "Skills", "Active">>,
            <<IntV(id), tags, metadata, scores, skills, BoolV(active)>>)

Alice ==
    Person("Alice", 30, TRUE, Strings(<<"Go", "Python">>), Float(FALSE, "750005", -1),
           PtrV(Department("Eng", "NYC")), MapV(<<"env">>, <<StringV("")>>))

Bob == Person("Bob", 0, FALSE, Strings(<<"Java">>), Float(FALSE, "0", 0), NilPtr, NilMap)

Carol ==
    Person("", 41, TRUE, NilSlice, Float(FALSE, "15", -1), PtrV(Department("", "LA")), NilMap)

People == <<Alice, Bob, Carol>>

\* a []*Person with a nil element
PeoplePtrs == <<PtrV(Alice), NilPtr, PtrV(Carol)>>

Items ==
    << Item(1, Strings(<<"x", "y">>), PtrV(MetadataInfo(Strings(<<"developer">>), 1)), Ints(<<5, 20>>), Strings(<<"coding">>), TRUE),
       Item(2, Strings(<<>>), NilPtr, Ints(<<20>>), NilSlice, FALSE),
       Item(3, NilSlice, PtrV(MetadataInfo(Strings(<<"content">>), 3)), NilSlice, Strings(<<"x">>), TRUE) >>

\* the most records a call passes
MaxRecs == 2

\* the most bytes of a generated query text
MaxTextLen == 3

\* the runs of at most MaxRecs consecutive records of a roster
Windows(roster) ==
    {SubSeq(roster, w[1], w[2]) :
        w \in {v \in (1..(Len(roster) + 1)) \X (0..Len(roster)) :
                  v[2] >= v[1] - 1 /\ v[2] - v[1] + 1 <= MaxRecs}}

\* queries over []Person and []*Person
PersonQueries ==
    { "", " ", "()", "Age > 25", "NOT Age > 25", "Name = 'Alice' OR Age > 40", "Salary >= 1.5K",
      "Name = (", "(Name = 'Alice'", "Name = 'Alice' )", "Name <> 'Alice'", "Name = 'Alice", "Name = @",
      "Age = 25abc", "Name 'Alice'", "ANY(Skills) = ANY()", "Name = 'Alice' AND",
      "Nope = 'x'", "Name.Foo = 'Alice'", "Age = 'abc'", "Salary = 'abc'", "Age CONTAINS 'x'", "Salary > 7.5e4",
      "Department.Name = 'Eng'", "ANY(Department.Name) = 'Eng'", "ANY(Skills) = ANY('Go', 'Java')",
      "Name = 'Bob' OR Age > 25 AND IsEmployed = true", "Age > 25 AND IsEmployed = true OR Name = 'Bob'",
      "Name = 'Bob' OR Skills = 'Go' AND Skills != 'Java'", "Skills = 'Go' AND Skills != 'Java' OR Name = 'Bob'",
      "Name =", "(Age > 25)", "(Name = 'Alice' OR Age > 40)",
      "name = 'Alice'", "NAME = 'Alice'", "Name = 'Alice'",
      "Skills = 'Go' AND Skills != 'Java'", "Skills = 'Go' AND skills != 'Java'",
      "Age IS NULL", "Age IS NOT NULL", "Name IS NULL", "name is not null",
      "IsEmployed IS NULL", "IsEmployed IS NOT NULL", "Tags.env IS NULL", "Department IS NOT NULL", "Department.Name IS NULL",
      "Nope IS NULL", "Nope IS NOT NULL", "Skills IS NULL", "Skills IS NOT NULL", "Department IS NULL", "Tags IS NULL",
      "Name = 'Alice' AND Nope = 'x'", "Nope = 'x' AND Name = 'Alice'", "Name = 'Zed' AND Nope = 'x'",
      "Nope = 'x' AND Name = 'Zed'", "Name = 'Alice' AND NOT Nope CONTAINS 'x'", "Nope = 'x' AND Nope = 'y'",
      "Age >", "Name CONTAINS", "Age > 25 AND Name =", "NOT Age <",
      "() AND Age > 25", "Age > 25 AND ()", "() OR Age > 25", "Age > 25 OR ()", "() AND Name = 'Alice' AND Age > 25",
      "() AND (Name = 'Alice' OR Age > 40)", "() OR Name = 'Alice' OR Age > 40", "NOT ()",
      "ANY(Age) = 'abc'", "ANY(Age) > 'abc'", "Age > 'abc'", "ANY(Age) > 25", "ANY(Name) = 'Alice'",
      "ANY(Salary) < '100,000'", "Salary < '100,000'", "ANY(IsEmployed) = true",
      "Name = 'Alice' AND Age = 'abc'", "Name = 'Alice' AND Age = 'not found'", "Age = 'not found' AND Name = 'Alice'",
      "IsEmployed = true AND Salary > 'x not found'", "IsEmployed = true AND Salary > 'x'" }

\* queries over []Item
ItemQueries ==
    { "ANY(Tags) = 'x'", "ANY(Tags) = 'z'", "ANY(Tags) = ANY('y', 'z')", "ANY(Scores) > 10",
      "ANY(Metadata.Categories) = 'content'", "Metadata.Priority = 1", "Active = true",
      "Scores > 10 AND Scores < 50", "ID IS NULL",
      "ANY(Scores) = ANY(90)", "ANY(Scores) = ANY(90, 95)", "ANY(Scores) = ANY(90, 95, 100)",
      "ANY(Tags) = ANY('y')", "ANY(Tags) = ANY('y', 'z', 'x')", "ANY(Tags) = ANY('y', 90)", "ANY(Tags) = ANY()",
      "ANY(Scores) = ANY(1.5, 20)", "Tags.Foo = 'x'", "ID.Foo = 1", "Metadata.Nope = 1" }

\* with the records and queries of Test_number_formats: a struct with a
\* signed, a float, an unsigned and a string field
Cases ==
    LET NumberItem(intValue, floatValue, uintValue, stringValue) ==
            StructV(<<"IntValue", "FloatValue", "UintValue", "StringValue">>,
                    <<IntV(intValue), FloatV(floatValue), UintV(uintValue), StringV(stringValue)>>)
        numberItems ==
            << NumberItem(123, Float(FALSE, "12345", -2), 123, "123"),
               NumberItem(0, Float(FALSE, "0", 0), 0, "0"),
               NumberItem(-123, Float(TRUE, "12345", -2), 0, "-123") >>
        numberItemQueries ==
            { "IntValue = 123", "IntValue = 'abc'", "IntValue > 1.5", "FloatValue = 123.45", "FloatValue = 'abc'",
              "FloatValue < 1.2.3", "UintValue = 123", "UintValue = -1", "UintValue = 'abc'", "UintValue >= 1.5" }
        \* query texts for the normalizer and the lexer: the examples of the
        \* humanizer tests, and every text of at most MaxTextLen bytes of an
        \* alphabet of digits, separators, unit letters, the quote, the
        \* backslash and the space
        humanizedQueries ==
            { "Duration > 10m", "Count > 10M", "Size > 10GB", "Size > 10GiB", "Timeout > 1h", "Size > 1.5K",
              "Count > 1,000,000", "Salary > 0.00001", "Name = '10GB'", "Name = '1,000' AND Size > 1,000",
              "Name = 'it\\'s 10GB'", "Name = '10GB", "Name = '1.5K\\'", "Count > 1e21", "Rate = inf",
              "Name = '_UNCLOSED_STRING_x'", "Name = '_UNCLOSED_STRING_'", "Name = 'a' OR Name = 'b",
              "ANY(Scores) = ANY(99999999999999999999, 2)", "Age = 1,a", "Age = a1,2",
              "Age > 25 AND Name = 'john'", "Price = 1.50", "Zip = 007", "Inf > 1", "Drive.Size >= 10 OR NOT Age IS NULL" }
        alphabet == {"1", "9", "0", ".", ",", "e", "E", "K", "m", "'", "\\", " "}
        RECURSIVE texts(_)
        texts(n) ==
            IF n = 0 THEN {""}
            ELSE LET shorter == texts(n - 1)
                 IN  shorter \cup {t \o c : t \in shorter, c \in alphabet}
        \* the records of People in the opposite order
        peopleReversed == <<Carol, Bob, Alice>>
        \* a []int, not a slice of structs, and queries over it
        numbers == <<IntV(1), IntV(2)>>
        numberQueries == {"", "Age > 25", "Age >"}
        \* a record with a map that has two keys equal under case folding,
        \* as the CaseSensitiveMap of Test_ANY_Case_Sensitivity_Comprehensive
        palette ==
            Person("Dana", 35, TRUE, NilSlice, Float(FALSE, "1", 0), NilPtr,
                   MapV(<<"Red", "red">>, <<StringV("FF0000"), StringV("red value")>>))
        paletteQueries ==
            { "Tags.Red = 'FF0000'", "Tags.red = 'red value'", "Tags.RED = 'FF0000'", "ANY(Tags.red) = 'red value'",
              "Tags.red IS NULL", "Name = 'Dana' AND Tags.red = 'red value'", "Name = 'Dana'" }
    IN  (PersonQueries \X (Windows(People) \cup Windows(PeoplePtrs) \cup Windows(peopleReversed)))
        \cup (ItemQueries \X Windows(Items))
        \cup (numberQueries \X Windows(numbers))
        \cup (paletteQueries \X {<<palette>>, <<palette, Alice>>})
        \cup (numberItemQueries \X Windows(numberItems))
        \cup ((humanizedQueries \cup texts(MaxTextLen)) \X {<<>>, <<Alice>>})


-----------------------------------------------------------------------------
(* One call Parse(query, data): the parse phase, then one step for each     *)
(* record, then the return.  evaluated lists the calls of Evaluate: the     *)
(* index of the record and what the call returned.                          *)

Init ==
    /\ \E c \in Cases : query = c[1] /\ data = c[2]
    /\ pc = "start"
    /\ ast = Nil
    /\ idx = 1
    /\ results = NilResults
    /\ err = ""
    /\ evaluated = <<>>

\* Parse up to the loop over the data
ParseStart ==
    LET parsed(r) ==
            IF r.err # ""
            THEN /\ results' = NilResults
                 /\ err' = r.err
                 /\ pc' = "done"
                 /\ UNCHANGED ast
            ELSE /\ ast' = r.ast
                 /\ results' = Results(<<>>)
                 /\ pc' = "eval"
                 /\ UNCHANGED err
    IN  /\ pc = "start"
        /\ IF query = ""
           THEN /\ results' = Results(data)
                /\ pc' = "done"
                /\ UNCHANGED <<ast, err>>
           ELSE parsed(parsePhase(query))
        /\ UNCHANGED <<query, data, idx, evaluated>>

\* one iteration of the loop over the data with an Evaluate that consumes
\* the node: an AND or OR node loses its first operand
EvaluateItemConsuming ==
    LET step(r) ==
            /\ evaluated' = IF callsEvaluate(data[idx])
                            THEN Append(evaluated, [i |-> idx, match |-> r.step = "match", err |-> r.err])
                            ELSE evaluated
            /\ IF r.step = "fail"
               THEN /\ results' = NilResults
                    /\ err' = r.err
                    /\ pc' = "done"
                    /\ UNCHANGED idx
               ELSE /\ results' = IF r.step = "match" THEN Results(Append(results.items, data[idx])) ELSE results
                    /\ idx' = idx + 1
                    /\ UNCHANGED <<err, pc>>
    IN  /\ pc = "eval"
        /\ idx <= Len(data)
        /\ step(evaluateItem(ast, data[idx]))
        /\ ast' = IF ast.node \in {"Conjunction", "Or"} /\ Len(ast.Expressions) > 1
                  THEN [ast EXCEPT !.Expressions = Tail(@)]
                  ELSE ast
        /\ UNCHANGED <<query, data>>

\* one iteration of the loop over the data; every map of the record hands
\* out its keys in some order
EvaluateItem ==
    LET step(r) ==
            /\ evaluated' = IF callsEvaluate(data[idx])
                            THEN Append(evaluated, [i |-> idx, match |-> r.step = "match", err |-> r.err])
                            ELSE evaluated
            /\ IF r.step = "fail"
               THEN /\ results' = NilResults
                    /\ err' = r.err
                    /\ pc' = "done"
                    /\ UNCHANGED idx
               ELSE /\ results' = IF r.step = "match" THEN Results(Append(results.items, data[idx])) ELSE results
                    /\ idx' = idx + 1
                    /\ UNCHANGED <<err, pc>>
    IN  /\ pc = "eval"
        /\ idx <= Len(data)
        /\ \E order \in KeyOrders : step(evaluateItem(ast, MapKeysIn(data[idx], order)))
        /\ UNCHANGED <<query, data, ast>>

\* the end of the loop: return results, nil
ParseReturn ==
    /\ pc = "eval"
    /\ idx > Len(data)
    /\ pc' = "done"
    /\ UNCHANGED <<query, data, ast, idx, results, err, evaluated>>

Next == ParseStart \/ EvaluateItem \/ ParseReturn

Spec == Init /\ [][Next]_vars

-----------------------------------------------------------------------------
(* The properties.  What the properties compare the code with is defined    *)
(* here on the records and the tokens, independently of the evaluator.      *)

\* the record behind an element of the data
Deref(item) == IF Kind(item) = "ptr" /\ ~IsNilV(item) THEN Elem(item) ELSE item

IsRecord(item) == Kind(Deref(item)) = "struct"

Outcome == [results |-> results, err |-> err]

\* the query evaluates to true on the record: it has a tree, and Evaluate of
\* the tree on the record returns (true, nil)
QueryTrueOn(q, item) ==
    /\ IsRecord(item)
    /\ LET r == parsePhase(q)
       IN  r.err = "" /\ Evaluate(r.ast, Deref(item)) = Out(TRUE, "")

\* Parse(q) over the record alone returns the record
MatchesAlone(q, item) == Parse(q, <<item>>) = [results |-> Results(<<item>>), err |-> ""]

\* C1: Parse with the empty query returns an error and no records, never the
\* input records, whatever the data.
C1_EmptyQueryIsRejected ==
    pc = "done" /\ query = "" => err # "" /\ results.items = <<>>

\* C2: whenever Parse succeeds, the result is exactly the records of the
\* data on which the query evaluates to true, in input order, each as often
\* as it occurs in the data.
C2_ResultIsTheMatchingSubsequence ==
    pc = "done" /\ err = "" =>
        results.items = SelectSeq(data, LAMBDA item : QueryTrueOn(query, item))

\* the number of tokens of a type
CountType(ts, type) == Cardinality({i \in 1..Len(ts) : ts[i].Type = type})

\* the kinds of syntax error C3 lists, read off the tokens the tokenizer
\* gets from the normalized query: an illegal character or unclosed string,
\* a missing operator, an unbalanced parenthesis, an empty ANY() value set,
\* a number running into letters
SyntaxError(q) ==
    LET ts == Tokenize(normalizeHumanizedValues(q))
        follows(i, a, b) == ts[i].Type = a /\ ts[i + 1].Type = b
    IN  \/ \E i \in 1..Len(ts) : ts[i].Type = "ILLEGAL"
        \/ CountType(ts, "LPAREN") # CountType(ts, "RPAREN")
        \/ \E i \in 1..(Len(ts) - 1) :
              \/ follows(i, "IDENTIFIER", "STRING")
              \/ follows(i, "IDENTIFIER", "NUMBER")
              \/ follows(i, "NUMBER", "IDENTIFIER")
        \/ \E i \in 1..(Len(ts) - 2) :
              ts[i].Type = "ANY" /\ follows(i + 1, "LPAREN", "RPAREN")

\* C3: a query with a syntax error never reaches Evaluate, and Parse returns
\* an error with nil results.
C3_SyntaxErrorFailsBeforeEvaluation ==
    SyntaxError(query) =>
        /\ evaluated = <<>>
        /\ pc = "done" => err # "" /\ results.nil

\* the path names a field of the value, as the types of the records declare
\* it: each segment names a field of a struct or a key of a map, through
\* pointers and collections; nothing is declared below a scalar
RECURSIVE PathExists(_, _)
PathExists(v, parts) ==
    IF parts = <<>> THEN TRUE
    ELSE CASE Kind(v) = "ptr" -> ~IsNilV(v) /\ PathExists(Elem(v), parts)
           [] Kind(v) = "struct" ->
                \E i \in 1..Len(v.names) :
                    EqualFold(v.names[i], Head(parts)) /\ PathExists(v.vals[i], Tail(parts))
           [] Kind(v) = "map" ->
                \E i \in 1..Len(v.keys) :
                    EqualFold(v.keys[i], Head(parts)) /\ PathExists(v.vals[i], Tail(parts))
           [] Kind(v) = "slice" -> \E i \in 1..Len(v.elems) : PathExists(v.elems[i], parts)
           [] OTHER -> FALSE

\* the first record on which the tree returns an evaluation error, if the
\* loop gets to it (0 if there is none)
FirstEvaluationError(expr) ==
    LET fails(i) == IsRecord(data[i]) /\ Evaluate(expr, Deref(data[i])).err # ""
        stops(i) == ~(Kind(data[i]) = "ptr" /\ IsNilV(data[i])) /\ (~IsRecord(data[i]) \/ fails(i))
    IN  IF \E i \in 1..Len(data) : fails(i) /\ \A j \in 1..(i - 1) : ~stops(j)
        THEN CHOOSE i \in 1..Len(data) : fails(i) /\ \A j \in 1..(i - 1) : ~stops(j)
        ELSE 0

\* C4: an evaluation error on a record is what Parse returns, wrapped, with
\* nil results, also after earlier matches; a top-level comparison on a
\* field that exists in no record, over data with a record, fails with
\* "field '<name>' not found".
C4_EvaluationErrorIsReturned ==
    pc = "done" /\ query # "" /\ parsePhase(query).err = "" =>
        LET expr == parsePhase(query).ast
            i == FirstEvaluationError(expr)
        IN  /\ i # 0 =>
                /\ err = "evaluation error: " \o Evaluate(expr, Deref(data[i])).err
                /\ results.nil
            /\ ( /\ expr.node = "Comparison"
                 /\ \E k \in 1..Len(data) : IsRecord(data[k])
                 /\ \A k \in 1..Len(data) : ~PathExists(Deref(data[k]), SplitDots(expr.Field, "")) )
               => /\ err = "evaluation error: field '" \o expr.Field \o "' not found"
                  /\ results.nil

\* the path runs through a pointer of the record that is nil
RECURSIVE ThroughNilPointer(_, _)
ThroughNilPointer(v, parts) ==
    IF Kind(v) = "ptr" THEN (IF IsNilV(v) THEN parts # <<>> ELSE ThroughNilPointer(Elem(v), parts))
    ELSE IF parts = <<>> \/ Kind(v) # "struct" THEN FALSE
    ELSE \E i \in 1..Len(v.names) :
            EqualFold(v.names[i], Head(parts)) /\ ThroughNilPointer(v.vals[i], Tail(parts))

\* C5: for a comparison or ANY clause on a path through a pointer, a record
\* in which the pointer is nil does not match and is no error: Parse
\* succeeds and returns the other matching records.
C5_NilPointerOnThePathIsNoMatch ==
    pc = "done" /\ query # "" /\ parsePhase(query).err = "" =>
        LET expr == parsePhase(query).ast
            nilOnPath(item) == ThroughNilPointer(Deref(item), SplitDots(expr.Field, ""))
        IN  ( /\ expr.node \in {"Comparison", "Any"}
              /\ \A k \in 1..Len(data) : IsRecord(data[k])
              /\ \E k \in 1..Len(data) : nilOnPath(data[k]) )
            => /\ err = ""
               /\ results.items =
                     SelectSeq(data, LAMBDA item : ~nilOnPath(item) /\ MatchesAlone(query, item))

\* comparisons a, b, c, joined below as "a OR b AND c" and "a AND b OR c"
PrecedenceTriples ==
    { <<"Name = 'Bob'", "Age > 25", "IsEmployed = true">>,
      <<"Age > 25", "IsEmployed = true", "Name = 'Bob'">>,
      <<"Name = 'Bob'", "Skills = 'Go'", "Skills != 'Java'">>,
      <<"Skills = 'Go'", "Skills != 'Java'", "Name = 'Bob'">> }

\* C6: AND binds tighter than OR: "a OR b AND c" matches a record iff a
\* matches it or both b and c match it, and "a AND b OR c" iff both a and b
\* match it or c matches it.
C6_AndBindsTighterThanOr ==
    pc = "done" =>
        \A t \in PrecedenceTriples :
            LET a(item) == MatchesAlone(t[1], item)
                b(item) == MatchesAlone(t[2], item)
                c(item) == MatchesAlone(t[3], item)
            IN  /\ query = t[1] \o " OR " \o t[2] \o " AND " \o t[3] =>
                    /\ err = ""
                    /\ results.items = SelectSeq(data, LAMBDA item : a(item) \/ (b(item) /\ c(item)))
                /\ query = t[1] \o " AND " \o t[2] \o " OR " \o t[3] =>
                    /\ err = ""
                    /\ results.items = SelectSeq(data, LAMBDA item : (a(item) /\ b(item)) \/ c(item))

\* C7: for a query q that parses as an expression and does not start with a
\* stray AND or OR, "(q)" parses to the same tree and Parse has the same
\* outcome for "(q)" as for q.
C7_ParenthesesAreTransparent ==
    ( /\ pc = "done"
      /\ query # ""
      /\ parsePhase(query).err = ""
      /\ Head(Tokenize(normalizeHumanizedValues(query))).Type \notin {"AND", "OR"} )
    => /\ parsePhase("(" \o query \o ")") = [ast |-> ast, err |-> ""]
       /\ Parse("(" \o query \o ")", data) = Outcome

\* the queries differ at most in the letter case of field paths
FieldCaseVariants(q1, q2) ==
    /\ EqualFold(q1, q2)
    /\ LET t1 == Tokenize(q1)
           t2 == Tokenize(q2)
       IN  /\ Len(t1) = Len(t2)
           /\ \A i \in 1..Len(t1) :
                 /\ t1[i].Type = t2[i].Type
                 /\ t1[i].Type # "IDENTIFIER" => t1[i].Literal = t2[i].Literal

\* C8: two queries that differ only in the letter case of field names have
\* the same outcome on every input, also with several comparisons on one
\* field under AND.
C8_FieldCaseNeverMatters ==
    pc = "done" =>
        \A q \in PersonQueries \cup ItemQueries :
            FieldCaseVariants(query, q) => Parse(q, data) = Outcome

\* the elements of the string collection Tags of a record (no record of the
\* model has Tags of another element type)
TagsOf(item) ==
    LET rec == Deref(item)
        i == CHOOSE j \in 1..Len(rec.names) : rec.names[j] = "Tags"
    IN  {rec.vals[i].elems[j].s : j \in 1..Len(rec.vals[i].elems)}

HasTags(item) ==
    /\ IsRecord(item)
    /\ \E j \in 1..Len(Deref(item).names) :
          Deref(item).names[j] = "Tags" /\ Kind(Deref(item).vals[j]) = "slice"

\* C9: ANY(Tags) = 'x' matches a record iff 'x' is an element of its Tags;
\* a record whose Tags is empty or nil does not match and is no error.
C9_AnyTagsIsMembership ==
    pc = "done" /\ (\A k \in 1..Len(data) : HasTags(data[k])) =>
        \A x \in {"x", "y", "z"} :
            query = "ANY(Tags) = '" \o x \o "'" =>
                /\ err = ""
                /\ results.items = SelectSeq(data, LAMBDA item : x \in TagsOf(item))

\* the path leads, through structs and non-nil pointers, to a field of
\* scalar type that holds the integer 0, false or the empty string
RECURSIVE ZeroScalarAt(_, _)
ZeroScalarAt(v, parts) ==
    IF Kind(v) = "ptr" THEN ~IsNilV(v) /\ parts # <<>> /\ ZeroScalarAt(Elem(v), parts)
    ELSE IF parts = <<>> THEN v \in {IntV(0), BoolV(FALSE), StringV("")}
    ELSE /\ Kind(v) = "struct"
         /\ \E i \in 1..Len(v.names) :
               EqualFold(v.names[i], Head(parts)) /\ ZeroScalarAt(v.vals[i], Tail(parts))

\* the calls of Evaluate of an IS [NOT] NULL tree on a record whose field is
\* a zero scalar
ZeroScalarCalls ==
    IF ast.node # "IsNull" THEN {}
    ELSE {k \in 1..Len(evaluated) :
             ZeroScalarAt(Deref(data[evaluated[k].i]), SplitDots(ast.Field, ""))}

\* C10: f IS NULL is true and f IS NOT NULL is false on every record whose
\* field f is the zero value of a scalar type: 0, false or "".
C10_ZeroScalarIsNull ==
    \A k \in ZeroScalarCalls :
        evaluated[k].err = "" /\ (evaluated[k].match <=> ~ast.Not)

\* Parse has returned a record that an IS NULL tree was evaluated on and
\* whose field is a zero scalar
C10_Witness ==
    /\ pc = "done"
    /\ ZeroScalarCalls # {}
    /\ ~ast.Not
    /\ \E k \in ZeroScalarCalls : evaluated[k].match
    /\ results.items # <<>>

\* the path leads, through structs and non-nil pointers, to a collection
\* that is nil or has no element
RECURSIVE EmptyCollectionAt(_, _)
EmptyCollectionAt(v, parts) ==
    IF Kind(v) = "ptr" THEN ~IsNilV(v) /\ parts # <<>> /\ EmptyCollectionAt(Elem(v), parts)
    ELSE IF parts = <<>>
    THEN (Kind(v) = "slice" /\ Len(v.elems) = 0) \/ (Kind(v) = "map" /\ Len(v.keys) = 0)
    ELSE /\ Kind(v) = "struct"
         /\ \E i \in 1..Len(v.names) :
               EqualFold(v.names[i], Head(parts)) /\ EmptyCollectionAt(v.vals[i], Tail(parts))

\* the first segment of the path names no field of the record
MissingField(v, parts) ==
    Kind(v) = "struct" /\ \A i \in 1..Len(v.names) : ~EqualFold(v.names[i], Head(parts))

\* the calls of Evaluate of an IS [NOT] NULL tree on a record on which the
\* path does not resolve or resolves to an empty or nil collection
NullPathCalls ==
    IF ast.node # "IsNull" THEN {}
    ELSE {k \in 1..Len(evaluated) :
             LET rec == Deref(data[evaluated[k].i])
                 parts == SplitDots(ast.Field, "")
             IN  \/ MissingField(rec, parts)
                 \/ ThroughNilPointer(rec, parts)
                 \/ EmptyCollectionAt(rec, parts)}

\* C11: on a record on which the path of an IS NULL clause does not resolve
\* (missing field, nil pointer on the way) or resolves to an empty or nil
\* collection, f IS NULL is true and f IS NOT NULL is false, without an
\* evaluation error.
C11_UnresolvedPathIsNull ==
    \A k \in NullPathCalls :
        evaluated[k].err = "" /\ (evaluated[k].match <=> ~ast.Not)

\* the calls of Evaluate of a tree that takes the same-field shortcut: an
\* AND node of two or more plain comparisons on one field path
SameFieldCalls ==
    IF ast.node = "Conjunction" /\ Len(ast.Expressions) >= 2 /\ allCmp(ast.Expressions)
    THEN 1..Len(evaluated)
    ELSE {}

\* C12: on every record the same-field shortcut of an AND node returns what
\* evaluating each child comparison on its own and AND-ing the results
\* returns, also when the path resolves to several values.
C12_SameFieldShortcutIsNaiveAnd ==
    \A k \in SameFieldCalls :
        LET rec == Deref(data[evaluated[k].i])
            child(i) == Evaluate(ast.Expressions[i], rec)
            children == 1..Len(ast.Expressions)
        IN  (\A i \in children : child(i).err = "") =>
                /\ evaluated[k].err = ""
                /\ evaluated[k].match <=> \A i \in children : child(i).match

\* the value the path leads to through structs and non-nil pointers
\* (Invalid if it does not lead to one)
RECURSIVE ValueAt(_, _)
ValueAt(v, parts) ==
    IF Kind(v) = "ptr" THEN (IF IsNilV(v) THEN Invalid ELSE ValueAt(Elem(v), parts))
    ELSE IF parts = <<>> THEN v
    ELSE IF Kind(v) # "struct" THEN Invalid
    ELSE IF \E i \in 1..Len(v.names) : EqualFold(v.names[i], Head(parts))
    THEN ValueAt(v.vals[CHOOSE i \in 1..Len(v.names) : EqualFold(v.names[i], Head(parts))], Tail(parts))
    ELSE Invalid

\* the literal does not parse in the numeric domain of the value: base 10
\* int64 or uint64, or float64 (group separators taken out, as in the
\* comparison)
Misparses(v, literal) ==
    \/ Kind(v) = "int" /\ ~ParseInt(StripCommas(literal)).ok
    \/ Kind(v) = "uint" /\ ~ParseUint(StripCommas(literal)).ok
    \/ Kind(v) = "float" /\ ~ParseFloat(StripCommas(literal)).ok

\* the calls of Evaluate of a Comparison tree on a record whose field is
\* in a numeric domain in which the literal of the tree does not parse
MisparseCalls ==
    IF ast.node # "Comparison" THEN {}
    ELSE {k \in 1..Len(evaluated) :
             Misparses(ValueAt(Deref(data[evaluated[k].i]), SplitDots(ast.Field, "")), ast.Value)}

\* C13: a comparison on a numeric field whose literal does not parse in the
\* domain of the field evaluates to an error that names the literal and the
\* field, never to a plain false, and Parse with it as the whole query fails.
C13_MalformedNumericLiteralIsAnError ==
    \A k \in MisparseCalls :
        /\ ~evaluated[k].match
        /\ HasPrefix(evaluated[k].err, "evaluation error: invalid ")
        /\ Contains(evaluated[k].err, "value '" \o ast.Value \o "'")
        /\ Contains(evaluated[k].err, "field '" \o ast.Field \o "'")
        /\ err = evaluated[k].err
        /\ results.nil

\* Parse has failed on a record with an unsigned field compared with a
\* literal that is no unsigned number
C13_Witness ==
    /\ pc = "done"
    /\ MisparseCalls # {}
    /\ \E k \in MisparseCalls :
          Kind(ValueAt(Deref(data[evaluated[k].i]), SplitDots(ast.Field, ""))) = "uint"
    /\ ast.Value = "-1"
    /\ results.nil

\* C14: normalizeHumanizedValues is idempotent: normalizing the text that
\* Parse has normalized gives that text again.
C14_NormalizeIsIdempotent ==
    pc # "start" =>
        normalizeHumanizedValues(normalizeHumanizedValues(query)) = normalizeHumanizedValues(query)

\* the end of the single-quoted literal that opens at i: after its closing
\* quote, which a backslash before it escapes, or the end of the text
RECURSIVE LiteralEnd(_, _)
LiteralEnd(q, k) ==
    IF k >= Len(q) THEN Len(q)
    ELSE IF At(q, k) = "'" THEN k + 1
    ELSE IF At(q, k) = "\\" /\ At(q, k + 1) = "'" THEN LiteralEnd(q, k + 2)
    ELSE LiteralEnd(q, k + 1)

\* the single-quoted literals of a text from i on, in order, quotes included
RECURSIVE QuotedLiterals(_, _)
QuotedLiterals(q, i) ==
    IF i >= Len(q) THEN <<>>
    ELSE IF At(q, i) = "'"
    THEN <<Slice(q, i, LiteralEnd(q, i + 1))>> \o QuotedLiterals(q, LiteralEnd(q, i + 1))
    ELSE QuotedLiterals(q, i + 1)

\* the text with a line break in the place of every single-quoted literal
RECURSIVE OutsideLiterals(_, _)
OutsideLiterals(q, i) ==
    IF i >= Len(q) THEN ""
    ELSE IF At(q, i) = "'" THEN "\n" \o OutsideLiterals(q, LiteralEnd(q, i + 1))
    ELSE At(q, i) \o OutsideLiterals(q, i + 1)

\* C15: the normalization of Parse leaves every single-quoted literal of
\* the query as it is, byte for byte and in place, also a literal with a
\* humanized form or an escaped quote in it and a literal that is not closed:
\* the literals of the normalized text are the literals of the text, and what
\* is between them is the normalization of what was between them.
C15_QuotedLiteralsAreUntouched ==
    pc # "start" =>
        /\ QuotedLiterals(normalizeHumanizedValues(query), 0) = QuotedLiterals(query, 0)
        /\ OutsideLiterals(normalizeHumanizedValues(query), 0)
              = normalizeHumanizedValues(OutsideLiterals(query, 0))

\* Parse has built the comparison of a query whose literal holds an escaped
\* quote and a byte size
C15_Witness ==
    /\ pc = "eval"
    /\ query = "Name = 'it\\'s 10GB'"
    /\ QuotedLiterals(query, 0) = <<"'it\\'s 10GB'">>
    /\ ast = ComparisonExpression("Name", "EQ", "it\\'s 10GB")

\* the examples of the humanizer disambiguation: a query and its normal form
DisambiguationExamples ==
    { <<"Duration > 10m", "Duration > 600">>,
      <<"Count > 10M", "Count > 10000000">>,
      <<"Size > 10GB", "Size > 10000000000">>,
      <<"Size > 10GiB", "Size > 10737418240">> }

\* C16: the normalizer tries time duration, byte size, SI prefix and
\* comma-grouped integer in this order and tells them apart by letter case:
\* 10m becomes 600, 10M becomes 10000000, 10GB becomes 10000000000 and 10GiB
\* becomes 10737418240.
C16_HumanizerRulePriority ==
    pc # "start" =>
        \A example \in DisambiguationExamples :
            query = example[1] => normalizeHumanizedValues(query) = example[2]

\* what the loop of Parse records of a call of Evaluate that returns r
Recorded(i, r) ==
    [i |-> i, match |-> r.err = "" /\ r.match, err |-> IF r.err = "" THEN "" ELSE "evaluation error: " \o r.err]

AndOnMissingField ==
    /\ ast # Nil
    /\ ast.node = "Conjunction"
    /\ \E k \in 1..Len(ast.Expressions) :
          LET e == ast.Expressions[k]
              c == IF e.node = "Not" THEN e.Expression ELSE e
          IN  /\ c.node = "Comparison"
              /\ \A i \in 1..Len(data) : ~PathExists(Deref(data[i]), SplitDots(c.Field, ""))

\* C18: an AND query with a comparison on a field that no record has, over
\* data that is not empty and holds records only, makes Parse return an
\* error, whatever the other operands and wherever the comparison stands.
C18_AndOnMissingFieldIsAnError ==
    pc = "done" /\ AndOnMissingField /\ data # <<>> /\ (\A i \in 1..Len(data) : IsRecord(data[i]))
        => err # ""

\* the query ends right after a comparator: the last token before the end of
\* the input is a comparison operator
EndsAfterComparator(q) ==
    LET ts == Tokenize(normalizeHumanizedValues(q))
        last == SelectSeq(ts, LAMBDA t : t.Type # "EOF")
    IN  last # <<>> /\ last[Len(last)].Type \in ComparisonOperators

\* C19: a query that ends right after a comparator never reaches Evaluate,
\* and Parse returns a parse error; no tree with a comparison against the
\* empty string is built from it.
C19_MissingLiteralIsAParseError ==
    EndsAfterComparator(query) =>
        /\ evaluated = <<>>
        /\ pc # "start" => ast = Nil
        /\ pc = "done" => err # "" /\ results.nil

\* the operand of a query with the prefix
OperandOf(q, prefix) == SubSeq(q, Len(prefix) + 1, Len(q))

\* the query is prefix followed by an operand that Parse accepts and
\* evaluates without error on the data
OperandAfter(q, prefix) ==
    /\ Len(q) > Len(prefix)
    /\ HasPrefix(q, prefix)
    /\ Parse(OperandOf(q, prefix), data).err = ""

\* C20: the query () matches no record; () AND e matches no record and
\* () OR e matches exactly the records that e matches, for every operand e that
\* Parse evaluates without error.
C20_EmptyParenthesesAreFalse ==
    pc = "done" =>
        /\ query = "()" => err = "" /\ results.items = <<>>
        /\ OperandAfter(query, "() AND ") => err = "" /\ results.items = <<>>
        /\ OperandAfter(query, "() OR ") => Outcome = Parse(OperandOf(query, "() OR "), data)

\* the plain comparison with the field, comparator and literal of an ANY
\* node that has one literal
PlainOf(ae) == ComparisonExpression(ae.Field, ae.Operator, ae.Values[1])

\* C21: on a record where the field of an ANY node with one literal is a
\* scalar, Evaluate of the ANY node has the outcome (match, non-match or
\* evaluation error) of the plain comparison of the field with the literal.
C21_AnyComparesAsPlainComparison ==
    ast # Nil /\ ast.node = "Any" /\ Len(ast.Values) = 1 =>
        \A k \in 1..Len(evaluated) :
            LET record == Deref(data[evaluated[k].i])
            IN  Kind(ValueAt(record, SplitDots(ast.Field, ""))) \in {"string", "bool", "int", "uint", "float"}
                    => evaluated[k] = Recorded(evaluated[k].i, Evaluate(PlainOf(ast), record))

\* whether the quoted string whose text starts at k has a closing quote
\* that no backslash escapes
RECURSIVE Closes(_, _)
Closes(q, k) ==
    IF k >= Len(q) THEN FALSE
    ELSE IF At(q, k) = "'" THEN TRUE
    ELSE IF At(q, k) = "\\" /\ At(q, k + 1) = "'" THEN Closes(q, k + 2)
    ELSE Closes(q, k + 1)

\* the token of every quoted string of a text from i on, as C22 has it: a
\* STRING with the text between the quotes, or the unclosed string token
\* with the text up to the end of the input
RECURSIVE StringTokens(_, _)
StringTokens(q, i) ==
    IF i >= Len(q) THEN <<>>
    ELSE IF At(q, i) = "'"
    THEN <<IF Closes(q, i + 1)
           THEN Token("STRING", Slice(q, i + 1, LiteralEnd(q, i + 1) - 1))
           ELSE Token("ILLEGAL", "unclosed string: " \o Slice(q, i + 1, Len(q)))>>
         \o StringTokens(q, LiteralEnd(q, i + 1))
    ELSE StringTokens(q, i + 1)

\* C22: of the text that Parse hands to the tokenizer, the tokenizer makes
\* every quoted string with a closing quote a STRING token with the text
\* between the quotes, and a quoted string that the end of the input cuts
\* off the ILLEGAL token "unclosed string"; an escaped quote closes nothing.
C22_StringTokens ==
    pc # "start" =>
        SelectSeq(Tokenize(normalizeHumanizedValues(query)),
                  LAMBDA t : t.Type = "STRING" \/ (t.Type = "ILLEGAL" /\ HasPrefix(t.Literal, "unclosed string: ")))
            = StringTokens(normalizeHumanizedValues(query), 0)

\* the text that readNumber has read for a NUMBER token: the literal
\* without the comma that NextToken puts before a literal that already
\* starts with it
NumberText(lit) == IF HasPrefix(lit, ",,") THEN Tail(lit) ELSE lit

\* every comma of the text of a number has a digit after it and, unless the
\* text starts with it, a digit before it
GroupingCommas(text) ==
    \A k \in 0..(Len(text) - 1) :
        At(text, k) = "," =>
            /\ k = 0 \/ isDigit(At(text, k - 1))
            /\ k + 1 < Len(text) /\ isDigit(At(text, k + 1))

\* C23: in the tokens of the text that Parse hands to the tokenizer, a
\* NUMBER token holds a comma only between two digits: no number ends with
\* a comma or holds a comma next to anything but digits.
C23_CommaInNumberOnlyBetweenDigits ==
    pc # "start" =>
        LET ts == Tokenize(normalizeHumanizedValues(query))
        IN  \A i \in 1..Len(ts) : ts[i].Type = "NUMBER" => GroupingCommas(NumberText(ts[i].Literal))

\* the literals as written in a value list, separated by ", "
RECURSIVE ValueList(_)
ValueList(literals) ==
    IF literals = <<>> THEN ""
    ELSE IF Len(literals) = 1 THEN literals[1]
    ELSE literals[1] \o ", " \o ValueList(Tail(literals))

\* the value of a literal: the text between the quotes of a string, the
\* text of a number
ValueOf(literal) == IF At(literal, 0) = "'" THEN Slice(literal, 1, Len(literal) - 1) ELSE literal

\* the value lists of the queries ANY(Scores) = ANY(...) and ANY(Tags) = ANY(...)
WrittenValueLists ==
    { <<"90">>, <<"90", "95">>, <<"90", "95", "100">>, <<"1.5", "20">>,
      <<"'y'">>, <<"'y'", "'z'">>, <<"'y'", "'z'", "'x'">>, <<"'y'", "90">> }

\* C24: from ANY(f) = ANY(v1, ..., vn) with n >= 1 literals, strings or
\* numbers, Parse builds the ANY node with the values v1..vn in written
\* order and no error; from ANY(f) = ANY() it returns a parse error.
C24_AnyValueListIsBuiltAsWritten ==
    pc # "start" =>
        /\ \A f \in {"Scores", "Tags"} : \A literals \in WrittenValueLists :
              query = "ANY(" \o f \o ") = ANY(" \o ValueList(literals) \o ")"
                  => ast = AnyExpression(f, "EQ", [i \in 1..Len(literals) |-> ValueOf(literals[i])])
        /\ query = "ANY(Tags) = ANY()" => pc = "done" /\ HasPrefix(err, "failed to parse query: ")

\* the maximal runs of letters, digits, dots and commas of a text from i
\* on; run is the one that is being read
RECURSIVE Runs(_, _, _)
Runs(q, i, run) ==
    LET ended == IF run = "" THEN {} ELSE {run}
    IN  IF i >= Len(q) THEN ended
        ELSE IF isLetterOrDigit(At(q, i)) \/ At(q, i) = "." \/ At(q, i) = ","
        THEN Runs(q, i + 1, run \o At(q, i))
        ELSE ended \cup Runs(q, i + 1, "")

\* a field path or keyword: it starts with a letter and has no comma
IsWord(t) == isLetter(At(t, 0)) /\ ~Contains(t, ",")

\* a plain numeric literal: digits, with at most one dot, that has digits
\* on both sides
IsPlainNumber(t) ==
    /\ \A k \in 0..(Len(t) - 1) : isDigit(At(t, k)) \/ At(t, k) = "."
    /\ Cardinality({k \in 0..(Len(t) - 1) : At(t, k) = "."}) <= 1
    /\ isDigit(At(t, 0)) /\ isDigit(At(t, Len(t) - 1))

\* C25: a query without quotes in which every token is a field path, a
\* keyword or a plain numeric literal, so that none of the four rules of
\* the normalizer applies, is what the normalization of Parse returns,
\* character for character.
C25_PlainTokensAreUnchanged ==
    pc # "start" /\ ~Contains(query, "'") /\ (\A t \in Runs(query, 0, "") : IsWord(t) \/ IsPlainNumber(t))
        => normalizeHumanizedValues(query) = query

\* C26: on every record that Evaluate was called on under a comparison
\* whose path names no field of the record, a path that goes on below a
\* scalar or below a collection of scalars included, the field resolution
\* of the path fails.
C26_PathPastScalarIsNotFound ==
    ast # Nil /\ ast.node = "Comparison" =>
        \A k \in 1..Len(evaluated) :
            LET record == Deref(data[evaluated[k].i])
            IN  ~PathExists(record, SplitDots(ast.Field, "")) => getFieldValues(record, ast.Field).err # ""

\* C27: what a call of Parse returns is a function of the query and the
\* records: it is what Parse(query, data) is with the keys of every map in
\* the order in which the records list them, whatever order the maps hand
\* their keys out in during the call.
C27_ParseIsDeterministic ==
    pc = "done" => Outcome = Parse(query, data)

\* what the loop of Parse returns for the AND of the two operands of the
\* tree in the other order
SwappedOutcome ==
    parseLoop(ConjunctionExpression(<<ast.Expressions[2], ast.Expressions[1]>>), data, 1, <<>>)

\* C28: a call of Parse on a AND b ends as the call on b AND a does: with an
\* error in both cases, or with the same results.
C28_AndIsOrderIndependent ==
    pc = "done" /\ ast # Nil /\ ast.node = "Conjunction" /\ Len(ast.Expressions) = 2 =>
        /\ err # "" <=> SwappedOutcome.err # ""
        /\ err = "" => results = SwappedOutcome.results

\* the tree is an AND of two comparisons on different fields, and the
\* literal of the second does not parse in the numeric domain of its field
\* on any record of the data
AndWithMalformedLiteral ==
    /\ ast # Nil
    /\ ast.node = "Conjunction"
    /\ Len(ast.Expressions) = 2
    /\ ast.Expressions[1].node = "Comparison"
    /\ ast.Expressions[2].node = "Comparison"
    /\ ast.Expressions[1].Field # ast.Expressions[2].Field
    /\ \A i \in 1..Len(data) :
          /\ IsRecord(data[i])
          /\ Misparses(ValueAt(Deref(data[i]), SplitDots(ast.Expressions[2].Field, "")), ast.Expressions[2].Value)

\* what the loop of Parse returns for the tree with the unparsable literal
\* abc in the place of its unparsable literal
OutcomeWithLiteralAbc ==
    parseLoop(ConjunctionExpression(<<ast.Expressions[1], [ast.Expressions[2] EXCEPT !.Value = "abc"]>>),
              data, 1, <<>>)

\* C29: a call of Parse on an AND over different fields with a literal that
\* does not parse fails if and only if the call fails with another
\* unparsable literal in its place: the text of the literal decides nothing.
C29_LiteralTextDecidesNothing ==
    pc = "done" /\ AndWithMalformedLiteral => (err # "" <=> OutcomeWithLiteralAbc.err # "")

\* every call of NextToken from the lexer l on moves the lexer forward by
\* at least one character until it returns EOF, and it returns EOF after at
\* most n other tokens
RECURSIVE ReachesEofWithin(_, _)
ReachesEofWithin(l, n) ==
    LET next(r) ==
            \/ r.tok.Type = "EOF"
            \/ n > 0 /\ r.l.position > l.position /\ ReachesEofWithin(r.l, n - 1)
    IN  next(NextToken(l))

\* the tokens the parser has not consumed: those its lexer has yet to
\* return, the peek token and the current token, EOF not counted
Unconsumed(p) ==
    Len(p.l) - 1 + (IF p.peekToken.Type = "EOF" THEN 0 ELSE 1) + (IF p.currentToken.Type = "EOF" THEN 0 ELSE 1)

\* every call of nextToken from the parser p on consumes a token until the
\* current token is EOF, which it is after at most n calls
RECURSIVE ConsumesUntilEof(_, _)
ConsumesUntilEof(p, n) ==
    \/ p.currentToken.Type = "EOF"
    \/ n > 0 /\ Unconsumed(nextToken(p)) < Unconsumed(p) /\ ConsumesUntilEof(nextToken(p), n - 1)

\* C30: on the text that Parse hands to the tokenizer, every NextToken
\* before EOF consumes at least one character and EOF comes after at most
\* as many tokens as the text has characters; every nextToken of the parser
\* before EOF consumes a token, so that the loops of ParseQuery, which go on
\* only while the current token is not EOF, end.
C30_TokenizingAndParsingTerminate ==
    LET terminate(l, n) == ReachesEofWithin(l, n) /\ ConsumesUntilEof(NewParser(l), n)
        tokenized(input) == terminate(NewEnhancedLexer(input), Len(input))
    IN  tokenized(normalizeHumanizedValues(query))

\* Parse has returned the errors of a query that sends ParseQuery through
\* its loop over trailing closing parentheses
C30_Witness ==
    /\ pc = "done"
    /\ query = "Name = 'Alice' )"
    /\ err = "failed to parse query: unbalanced parenthesis: unexpected closing )"

=============================================================================
